---------------------------- MODULE Spec2Model ----------------------------
(***************************************************************************)
(* A model of the analytical core of onsm: the PAF reader (io/paf.rs,      *)
(* read_paf), the locus pairer (io/paf.rs, pair_and_merge), the scoring /  *)
(* classification engine (scoring.rs, classify_pairs), the summarizer      *)
(* (summary.rs, union_len_all and compute_percentages), the coverage and   *)
(* span estimator (io/bam.rs, compute_coverage_and_spans_with_tools) and   *)
(* the stages of the two pipelines (subcommands/classify.rs, reuse.rs).    *)
(*                                                                         *)
(* Numbers.  The program computes in f32.  The model computes in exact     *)
(* fixed point: identities, depth ratios, span fractions, weights and      *)
(* thresholds are integers in thousandths (ONE = 1.0), products of a       *)
(* weight and a feature, hence the scores, are in millionths.  f32         *)
(* rounding is not modelled.  tanh and ln have no integer counterpart:     *)
(* depth_contrast is drawn from every grid value that has the sign the     *)
(* real function gives (DepthContrastRange).                               *)
(*                                                                         *)
(* The specifications share the variables, one specification per          *)
(* component; a component that a specification does not run keeps its      *)
(* initial value.  The pipeline runs the estimator as one of its stages.   *)
(***************************************************************************)
EXTENDS Integers, Sequences, FiniteSets, TLC

VARIABLES
    pc,          \* position of the running function
    \* ---- classify_pairs (scoring.rs) ----
    pairs,       \* pairs: &[PairedLocus]
    coverage,    \* coverage: &CoverageSummary
    spans,       \* spans: &SpanSummary
    w,           \* w: Weights
    params,      \* params: ClassifyParams
    k,           \* number of loci the for loop has consumed
    loc,         \* the locals of the last loop iteration
    pairs_tsv,   \* rows appended to pairs_tsv (the header is implicit)
    class_tsv,   \* rows appended to class_tsv (the header is implicit)
    \* ---- pair_and_merge (io/paf.rs) ----
    m2n,         \* m2n: Vec<PafRecord>, the driver hits
    n2m,         \* n2m: Vec<PafRecord>, the reciprocal hits
    merge_gap,   \* _merge_gap: u32
    pi,          \* number of driver records the for loop has consumed
    loci,        \* loci: Vec<PairedLocus>
    \* ---- read_paf (io/paf.rs) ----
    path_exists, \* path.exists()
    can_open,    \* whether paf::Reader::from_path succeeds
    file,        \* the lines of the file, each as paf::Reader yields it
    min_id,      \* min_id: f32
    min_len,     \* min_len: u32
    ri,          \* number of lines the for loop has consumed
    ours,        \* ours: PafRecord of the last loop iteration
    out,         \* out: Vec<PafRecord>
    \* ---- union_len_all (summary.rs) ----
    um,          \* m: &HashMap<String, Vec<(u32, u32)>>
    ulens,       \* contig -> union_len of its vector, for the values visited
    usum,        \* the running sum of .sum()
    \* ---- compute_percentages (summary.rs) ----
    mito_lens,   \* what fasta::contig_lengths(mito_fa) returns
    nuc_lens,    \* what fasta::contig_lengths(nuc_fa) returns
    sum_pairs,   \* pairs: &[PairedLocus]
    calls,       \* calls: &HashMap<String, String>
    si,          \* number of loci the for loop has consumed
    cp,          \* the counters and interval maps of compute_percentages
    \* ---- compute_coverage_and_spans_with_tools (io/bam.rs) ----
    est_pairs,   \* pairs: &[PairedLocus]
    ei,          \* number of loci the for loop has consumed
    q,           \* d_nuc, d_mito, s_nuc, s_mito of the last loop iteration
    per_pair,    \* per_pair: pair_id -> (d_nuc, d_mito)
    per_span,    \* per_span: pair_id -> (s_nuc, s_mito)
    nuc_locals,  \* nuc_locals: Vec<f32>
    mito_locals, \* mito_locals: Vec<f32>
    \* ---- CmdClassify::run, CmdReuse::run (subcommands) ----
    cmd,         \* the subcommand and its flags
    stage,       \* number of stages of run() that have completed
    ran,         \* the stages that have completed, in order
    written,     \* the files of the output directory written by this run
    \* ---- avg_depth_.. and span_fraction_for_region_path_with_samtools ----
    bam,         \* the records of the BAM file on the queried contig
    wq,          \* the locus side, flank, win_bp and samtools' exit statuses
    window,      \* window: Window, as the estimator builds it
    span_w,      \* span_w: Window, the capped window of the span check
    recs,        \* the records of slice.bam
    rx,          \* number of records the for loop has consumed
    covered,     \* covered: i64
    total,       \* total: f32, a count
    spans_cnt,   \* spans: f32, a count
    d_nuc,       \* what the depth query returned
    ret          \* the value the running function has returned

scoringVars == <<pairs, coverage, spans, w, params, k, loc, pairs_tsv, class_tsv>>

pairerVars == <<m2n, n2m, merge_gap, pi, loci>>

readerVars == <<path_exists, can_open, file, min_id, min_len, ri, ours, out>>

unionVars == <<um, ulens, usum>>

summaryVars == <<mito_lens, nuc_lens, sum_pairs, calls, si, cp>>

estimatorVars == <<est_pairs, ei, q, per_pair, per_span, nuc_locals, mito_locals>>

pipelineVars == <<cmd, stage, ran, written>>

\* the components added to the reader, the pairer and the scoring engine
windowVars == <<bam, wq, window, span_w, recs, rx, covered, total, spans_cnt, d_nuc>>

reportVars == <<unionVars, summaryVars, estimatorVars, pipelineVars, windowVars>>

vars == <<pc, scoringVars, pairerVars, readerVars, reportVars, ret>>

-----------------------------------------------------------------------------
(* Bounds of the model *)

\* longest list of loci handed to classify_pairs
MaxPairs == 1

\* longest list of driver (mito->nuclear) records handed to pair_and_merge
MaxDrivers == 2

\* longest list of reciprocal (nuclear->mito) records handed to pair_and_merge
MaxRecip == 2

\* most lines of a PAF file
MaxLines == 3

-----------------------------------------------------------------------------
(* Fixed-point helpers *)

\* 1.0f32 in thousandths
ONE == 1000

Abs(x) == IF x < 0 THEN -x ELSE x

Min2(a, b) == IF a <= b THEN a ELSE b

Max2(a, b) == IF a >= b THEN a ELSE b

NoValue == [tag |-> "none"]

-----------------------------------------------------------------------------
(* model.rs: default constants *)

CALL_THRESHOLD == 150

HIGHCONF_THRESHOLD == 300

W_A == 250

W_L == 150

W_D == 250

W_S == 250

DefaultWeights == [w_a |-> W_A, w_l |-> W_L, w_d |-> W_D, w_s |-> W_S]

DefaultParams ==
    [call_threshold |-> CALL_THRESHOLD, highconf_threshold |-> HIGHCONF_THRESHOLD]

-----------------------------------------------------------------------------
(* io/paf.rs: pair ids *)

\* one decimal digit as text
Digit(d) == ToString(d)

\* format!("{:06}", n): at least six digits, zero padded on the left
Pad6(n) ==
    IF n >= 1000000
    THEN ToString(n)
    ELSE Digit((n \div 100000) % 10) \o Digit((n \div 10000) % 10)
         \o Digit((n \div 1000) % 10) \o Digit((n \div 100) % 10)
         \o Digit((n \div 10) % 10) \o Digit(n % 10)

\* format!("P{:06}", i + 1) for the 0-based enumerate index i
PairId(i) == "P" \o Pad6(i + 1)

\* ident of impl From<paf::PafRecord>: matches / alnlen, 0.0 when alnlen = 0
Identity(matches, alnlen) ==
    IF alnlen > 0 THEN (ONE * matches) \div alnlen ELSE 0

\* impl From<paf::PafRecord> for PafRecord: the fields copied, identity derived
FromPaf(r) ==
    [qname |-> r.qname, qstart |-> r.qstart, qend |-> r.qend,
     tname |-> r.tname, tstart |-> r.tstart, tend |-> r.tend,
     matches |-> r.matches, alnlen |-> r.alnlen, mapq |-> r.mapq,
     identity |-> Identity(r.matches, r.alnlen), strand |-> r.strand]

\* a parsed paf::PafRecord
RawPaf(qname, qstart, qend, tname, tstart, tend, matches, alnlen) ==
    [qname |-> qname, qstart |-> qstart, qend |-> qend,
     tname |-> tname, tstart |-> tstart, tend |-> tend,
     matches |-> matches, alnlen |-> alnlen, mapq |-> 60, strand |-> "+"]

-----------------------------------------------------------------------------
(* io/paf.rs: read_paf *)

\* the filter with either bound sufficient
KeepEither(rec, mid, mlen) == rec.identity >= mid \/ rec.alnlen >= mlen

\* if ours.identity >= min_id && ours.alnlen >= min_len
Keep(rec, mid, mlen) == rec.identity >= mid /\ rec.alnlen >= mlen

\* The loop body with a malformed record skipped instead of propagated
OnRecordSkipMalformed(line, o, mid, mlen) ==
    IF ~line.ok
    THEN [pc |-> "read_loop", ours |-> NoValue, out |-> o, ret |-> NoValue]
    ELSE LET r == FromPaf(line.rec)
         IN [pc |-> "read_loop", ours |-> r,
             out |-> IF Keep(r, mid, mlen) THEN Append(o, r) ELSE o,
             ret |-> NoValue]

\* The body of `for rec in reader.records()`: `rec.map_err(..)?` returns the
\* error of a malformed record (out is dropped), a parsed record is converted
\* and pushed when it passes the filter
OnRecord(line, o, mid, mlen) ==
    IF ~line.ok
    THEN [pc |-> "read_done", ours |-> NoValue, out |-> <<>>,
          ret |-> [tag |-> "Err", kind |-> "ParseError"]]
    ELSE LET r == FromPaf(line.rec)
         IN [pc |-> "read_loop", ours |-> r,
             out |-> IF Keep(r, mid, mlen) THEN Append(o, r) ELSE o,
             ret |-> NoValue]

-----------------------------------------------------------------------------
(* io/paf.rs: pair_and_merge *)

\* the indices of the reciprocal records with the contig names of rec swapped
Matching(recip, rec) ==
    {j \in 1..Len(recip) : recip[j].qname = rec.tname /\ recip[j].tname = rec.qname}

\* Iterator::max_by over the matching records: the last one of maximal identity
Best(recip, rec) ==
    LET idx == Matching(recip, rec)
    IN IF idx = {} THEN NoValue
       ELSE LET top == {j \in idx : \A j2 \in idx : recip[j2].identity <= recip[j].identity}
            IN recip[CHOOSE j \in top : \A j2 \in top : j2 <= j]

\* PairedLocus with its coordinates taken from the best reciprocal hit when
\* there is one (the two roles of the reciprocal record exchanged)
LocusFromReciprocal(i, rec, recip) ==
    LET best == Best(recip, rec)
        src == IF best = NoValue THEN rec
               ELSE [rec EXCEPT !.qstart = best.tstart, !.qend = best.tend,
                                !.tstart = best.qstart, !.tend = best.qend,
                                !.alnlen = best.alnlen]
        ident == IF best = NoValue THEN rec.identity
                 ELSE Max2(best.identity, rec.identity)
    IN [pair_id |-> PairId(i),
        nuc_contig |-> src.tname,
        nuc_start |-> Min2(src.tstart, src.tend), nuc_end |-> Max2(src.tstart, src.tend),
        mito_contig |-> src.qname,
        mito_start |-> Min2(src.qstart, src.qend), mito_end |-> Max2(src.qstart, src.qend),
        aln_len |-> src.alnlen, aln_ident |-> ident]

\* PairedLocus with the identity of the best reciprocal hit alone
LocusReciprocalIdentity(i, rec, recip) ==
    LET best == Best(recip, rec)
        ident == IF best = NoValue THEN rec.identity ELSE best.identity
    IN [pair_id |-> PairId(i),
        nuc_contig |-> rec.tname,
        nuc_start |-> Min2(rec.tstart, rec.tend), nuc_end |-> Max2(rec.tstart, rec.tend),
        mito_contig |-> rec.qname,
        mito_start |-> Min2(rec.qstart, rec.qend), mito_end |-> Max2(rec.qstart, rec.qend),
        aln_len |-> rec.alnlen, aln_ident |-> ident]

\* LocusOf with the coordinates copied in the order the record has them
LocusAsRecorded(i, rec, recip) ==
    LET best == Best(recip, rec)
        ident == IF best = NoValue THEN rec.identity
                 ELSE Max2(best.identity, rec.identity)
    IN [pair_id |-> PairId(i),
        nuc_contig |-> rec.tname,
        nuc_start |-> rec.tstart, nuc_end |-> rec.tend,
        mito_contig |-> rec.qname,
        mito_start |-> rec.qstart, mito_end |-> rec.qend,
        aln_len |-> rec.alnlen, aln_ident |-> ident]

\* The body of the for loop of pair_and_merge: the locus pushed for the driver
\* record rec at enumerate index i (0-based)
LocusOf(i, rec, recip) ==
    LET best == Best(recip, rec)
        ident == IF best = NoValue THEN rec.identity
                 ELSE Max2(best.identity, rec.identity)
    IN [pair_id |-> PairId(i),
        nuc_contig |-> rec.tname,
        nuc_start |-> Min2(rec.tstart, rec.tend), nuc_end |-> Max2(rec.tstart, rec.tend),
        mito_contig |-> rec.qname,
        mito_start |-> Min2(rec.qstart, rec.qend), mito_end |-> Max2(rec.qstart, rec.qend),
        aln_len |-> rec.alnlen, aln_ident |-> ident]

\* loci after the push for a driver that overlaps or abuts (within gap) the
\* previous locus on both contigs is folded into that locus instead
PushMerging(ls, locus, gap) ==
    IF /\ Len(ls) > 0
       /\ ls[Len(ls)].nuc_contig = locus.nuc_contig
       /\ ls[Len(ls)].mito_contig = locus.mito_contig
       /\ locus.nuc_start <= ls[Len(ls)].nuc_end + gap
       /\ ls[Len(ls)].nuc_start <= locus.nuc_end + gap
    THEN [ls EXCEPT ![Len(ls)].nuc_start = Min2(@, locus.nuc_start),
                    ![Len(ls)].nuc_end = Max2(@, locus.nuc_end),
                    ![Len(ls)].mito_start = Min2(@, locus.mito_start),
                    ![Len(ls)].mito_end = Max2(@, locus.mito_end)]
    ELSE Append(ls, locus)

\* loci.push(PairedLocus { .. }): _merge_gap is not read
Push(ls, locus, gap) == Append(ls, locus)

-----------------------------------------------------------------------------
(* scoring.rs: helpers *)

clamp01(x) == IF x < 0 THEN 0 ELSE IF x > ONE THEN ONE ELSE x

L50 == 5000

scale_len(len_bp) == clamp01((ONE * len_bp) \div (len_bp + L50))

\* eps = 1e-3 in thousandths
EPS == 1

\* The values of depth_contrast = tanh(k_depth * log2((rnuc+eps)/(rmito+eps)))
\* on the grid.  rnuc + eps and rmito + eps are positive, so the logarithm is
\* finite and has the sign of rnuc - rmito; tanh keeps the sign and is bounded
\* by 1 (f32 tanh saturates to exactly +-1.0 for large arguments).
DepthContrastRange(rnuc, rmito) ==
    IF rnuc + EPS > rmito + EPS THEN {1, ONE}
    ELSE IF rnuc + EPS < rmito + EPS THEN {-1, -ONE}
    ELSE {0}

\* rnuc / rmito: local depth over the global median, 0 for a zero median
DepthRatio(d_loc, med) == IF med > 0 THEN (ONE * d_loc) \div med ELSE 0

\* GetOrZero with (1.0, 1.0) for an absent key
GetOrOne(map, key) == IF key \in DOMAIN map THEN map[key] ELSE <<ONE, ONE>>

\* HashMap::get(..).copied().unwrap_or((0.0, 0.0))
GetOrZero(map, key) == IF key \in DOMAIN map THEN map[key] ELSE <<0, 0>>

\* Decide with the two tests in the other order
DecideNimtFirst(score_numt, score_nimt, call_threshold) ==
    IF (score_nimt - score_numt) >= call_threshold * ONE THEN "NIMT"
    ELSE IF (score_numt - score_nimt) >= call_threshold * ONE THEN "NUMT"
    ELSE "Ambiguous"

\* Decide by the sign of the difference alone, the threshold ignored
DecideNoThreshold(score_numt, score_nimt, call_threshold) ==
    IF (score_numt - score_nimt) > 0 THEN "NUMT"
    ELSE IF (score_nimt - score_numt) > 0 THEN "NIMT"
    ELSE "Ambiguous"

\* Decide with equal scores called NUMT
DecideTieIsNumt(score_numt, score_nimt, call_threshold) ==
    IF score_numt = score_nimt \/ (score_numt - score_nimt) >= call_threshold * ONE
    THEN "NUMT"
    ELSE IF (score_nimt - score_numt) >= call_threshold * ONE THEN "NIMT"
    ELSE "Ambiguous"

\* The decision of scoring.rs lines 137-144
Decide(score_numt, score_nimt, call_threshold) ==
    IF (score_numt - score_nimt) >= call_threshold * ONE THEN "NUMT"
    ELSE IF (score_nimt - score_numt) >= call_threshold * ONE THEN "NIMT"
    ELSE "Ambiguous"

\* CallStr with the two direction labels exchanged
CallStrSwapped(call) ==
    CASE call = "NUMT" -> <<"Likely_NIMT", "score_difference">>
      [] call = "NIMT" -> <<"Likely_NUMT", "score_difference">>
      [] OTHER -> <<"Ambiguous", "delta_below_threshold">>

\* match call { .. } => (call_str, reason)
CallStr(call) ==
    CASE call = "NUMT" -> <<"Likely_NUMT", "score_difference">>
      [] call = "NIMT" -> <<"Likely_NIMT", "score_difference">>
      [] OTHER -> <<"Ambiguous", "delta_below_threshold">>

\* "{:.4}" of a value in millionths: rounded to ten-thousandths
Fmt4(x) == IF x >= 0 THEN (x + 50) \div 100 ELSE -((-x + 50) \div 100)

\* "{:.4}" / "{:.3}" of a value in thousandths
Fmt4m(x) == x * 10

Fmt3m(x) == x

\* pro_* and pen_*: weighted depth-consistency and span terms of one side
ProTerm(wt, d, s) == wt.w_d * d + wt.w_s * s

\* boost_numt; boost_nimt is its negation, term by term
BoostNumt(wt, depth_contrast, span_contrast) ==
    wt.w_d * depth_contrast + wt.w_s * span_contrast

\* boost_nimt with the sign of boost_numt
BoostNimtAsNumt(wt, depth_contrast, span_contrast) ==
    wt.w_d * depth_contrast + wt.w_s * span_contrast

BoostNimt(wt, depth_contrast, span_contrast) ==
    (-wt.w_d) * depth_contrast - wt.w_s * span_contrast

\* FinalScore without the penalty of the other side's evidence
FinalScoreNoPenalty(base, pro, pen, boost) == base + pro + boost

\* the final score of one direction
FinalScore(base, pro, pen, boost) == base + pro - pen + boost

\* The body of the for loop of classify_pairs for locus p, with depth_contrast dc
ScoreLocus(p, cov, sp, wt, prm, dc) ==
    LET dn_med == cov.nuclear_median
        dm_med == cov.mito_median
        dl == GetOrZero(cov.per_pair, p.pair_id)
        rnuc == DepthRatio(dl[1], dn_med)
        rmito == DepthRatio(dl[2], dm_med)
        d_numt == clamp01(ONE - Abs(rnuc - ONE))
        d_nimt == clamp01(ONE - Abs(rmito - ONE))
        sl == GetOrZero(sp.per_pair, p.pair_id)
        s_nuc == sl[1]
        s_mito == sl[2]
        span_contrast == s_nuc - s_mito
        a == clamp01(p.aln_ident)
        l == scale_len(p.aln_len)
        base == wt.w_a * a + wt.w_l * l
        pro_numt == ProTerm(wt, d_numt, s_nuc)
        pro_nimt == ProTerm(wt, d_nimt, s_mito)
        pen_numt == ProTerm(wt, d_nimt, s_mito)
        pen_nimt == ProTerm(wt, d_numt, s_nuc)
        boost_numt == BoostNumt(wt, dc, span_contrast)
        boost_nimt == BoostNimt(wt, dc, span_contrast)
        score_numt == FinalScore(base, pro_numt, pen_numt, boost_numt)
        score_nimt == FinalScore(base, pro_nimt, pen_nimt, boost_nimt)
        delta == Abs(score_numt - score_nimt)
        call == Decide(score_numt, score_nimt, prm.call_threshold)
    IN [pair_id |-> p.pair_id, a |-> a, l |-> l, rnuc |-> rnuc, rmito |-> rmito,
        d_numt |-> d_numt, d_nimt |-> d_nimt, s_nuc |-> s_nuc, s_mito |-> s_mito,
        depth_contrast |-> dc, span_contrast |-> span_contrast, base |-> base,
        score_numt |-> score_numt, score_nimt |-> score_nimt,
        delta |-> delta, call |-> call]

PairsRow(p, x) ==
    [pair_id |-> p.pair_id, nuc_contig |-> p.nuc_contig, nuc_start |-> p.nuc_start,
     nuc_end |-> p.nuc_end, mito_contig |-> p.mito_contig,
     mito_start |-> p.mito_start, mito_end |-> p.mito_end, aln_len |-> p.aln_len,
     aln_ident |-> Fmt4m(x.a), rnuc |-> Fmt3m(x.rnuc), rmito |-> Fmt3m(x.rmito),
     s_nuc |-> Fmt3m(x.s_nuc), s_mito |-> Fmt3m(x.s_mito),
     score_numt |-> Fmt4(x.score_numt), score_nimt |-> Fmt4(x.score_nimt)]

\* the row with the reason of a directed call whatever the call is
ClassRowOneReason(p, x) ==
    [pair_id |-> p.pair_id, call |-> CallStr(x.call)[1],
     confidence |-> Fmt4(x.delta), reason_codes |-> "score_difference"]

ClassRow(p, x) ==
    [pair_id |-> p.pair_id, call |-> CallStr(x.call)[1],
     confidence |-> Fmt4(x.delta), reason_codes |-> CallStr(x.call)[2]]

-----------------------------------------------------------------------------
(* Inputs of classify_pairs *)

DepthVals == {33, 100, 250}

MedianVals == {0, 100}

SpanVals == {100, 500, 800}

WeightVals == {DefaultWeights, [w_a |-> 100, w_l |-> 0, w_d |-> 333, w_s |-> 50]}

ThresholdVals == {CALL_THRESHOLD, 0}

\* A locus as the pairer would emit it for driver index i
MkLocus(i, ident, len) ==
    [pair_id |-> PairId(i), nuc_contig |-> "chr1", nuc_start |-> 100 * i,
     nuc_end |-> 100 * i + len, mito_contig |-> "mt", mito_start |-> 0,
     mito_end |-> len, aln_len |-> len, aln_ident |-> ident]

LocusKinds == {MkLocus(0, 980, 5000), MkLocus(0, 600, 100)}

LocusLists(n) == [1..n -> LocusKinds]

\* every list of n loci with pair ids P000001.. in order
ScoringPairs ==
    UNION {{[i \in 1..n |-> [f[i] EXCEPT !.pair_id = PairId(i - 1)]] : f \in LocusLists(n)}
           : n \in 0..MaxPairs}

\* every map from some of the keys to a pair of vals
PairMaps(keys, vals) ==
    UNION {[S -> vals \X vals] : S \in SUBSET keys}

\* A component that is not running
IdleScoring ==
    /\ pairs = <<>>
    /\ coverage = NoValue
    /\ spans = NoValue
    /\ w = NoValue
    /\ params = NoValue
    /\ k = 0
    /\ loc = NoValue
    /\ pairs_tsv = <<>>
    /\ class_tsv = <<>>

IdlePairer ==
    /\ m2n = <<>>
    /\ n2m = <<>>
    /\ merge_gap = 0
    /\ pi = 0
    /\ loci = <<>>

IdleReader ==
    /\ path_exists = FALSE
    /\ can_open = FALSE
    /\ file = <<>>
    /\ min_id = 0
    /\ min_len = 0
    /\ ri = 0
    /\ ours = NoValue
    /\ out = <<>>

IdleUnion ==
    /\ um = NoValue
    /\ ulens = NoValue
    /\ usum = 0

IdleSummary ==
    /\ mito_lens = NoValue
    /\ nuc_lens = NoValue
    /\ sum_pairs = <<>>
    /\ calls = NoValue
    /\ si = 0
    /\ cp = NoValue

IdleEstimator ==
    /\ est_pairs = <<>>
    /\ ei = 0
    /\ q = NoValue
    /\ per_pair = NoValue
    /\ per_span = NoValue
    /\ nuc_locals = <<>>
    /\ mito_locals = <<>>

IdlePipeline ==
    /\ cmd = NoValue
    /\ stage = 0
    /\ ran = <<>>
    /\ written = {}

IdleWindow ==
    /\ bam = <<>>
    /\ wq = NoValue
    /\ window = NoValue
    /\ span_w = NoValue
    /\ recs = <<>>
    /\ rx = 0
    /\ covered = 0
    /\ total = 0
    /\ spans_cnt = 0
    /\ d_nuc = NoValue

IdleReport == IdleUnion /\ IdleSummary /\ IdleEstimator /\ IdlePipeline /\ IdleWindow

TypeOKScoring ==
    /\ pc \in {"classify_loop", "classify_done", "calls_parsed"}
    /\ k \in 0..Len(pairs)

\* the local depths and span fractions of a locus with nuclear-like support
\* and of one with mitochondrial-like support
Profiles ==
    {[depth |-> <<100, 250>>, span |-> <<800, 100>>],
     [depth |-> <<250, 100>>, span |-> <<100, 800>>]}

\* the lists one locus longer than MaxPairs, pair ids P000001.. in order
LongPairs ==
    {[i \in 1..(MaxPairs + 1) |-> [f[i] EXCEPT !.pair_id = PairId(i - 1)]] :
        f \in LocusLists(MaxPairs + 1)}

\* the map of the loci that have a profile to the field fld of the profile
ProfileMap(f, fld) == [id \in {x \in DOMAIN f : f[x] # NoValue} |-> f[id][fld]]

InitScoring ==
    /\ pc = "classify_loop"
    /\ \/ /\ pairs \in ScoringPairs
          /\ coverage \in [nuclear_median : MedianVals, mito_median : MedianVals,
                           per_pair : PairMaps({p.pair_id : p \in {pairs[i] : i \in 1..Len(pairs)}}, DepthVals)]
          /\ spans \in [per_pair : PairMaps({p.pair_id : p \in {pairs[i] : i \in 1..Len(pairs)}}, SpanVals)]
          /\ w \in WeightVals
          /\ params \in [call_threshold : ThresholdVals, highconf_threshold : {HIGHCONF_THRESHOLD}]
       \/ /\ pairs \in LongPairs
          /\ \E f \in [{pairs[i].pair_id : i \in 1..Len(pairs)} -> Profiles \cup {NoValue}] :
                /\ coverage = [nuclear_median |-> 100, mito_median |-> 100,
                               per_pair |-> ProfileMap(f, "depth")]
                /\ spans = [per_pair |-> ProfileMap(f, "span")]
          /\ w = DefaultWeights
          /\ params = DefaultParams
    /\ k = 0
    /\ loc = NoValue
    /\ pairs_tsv = <<>>
    /\ class_tsv = <<>>
    /\ ret = NoValue
    /\ IdlePairer
    /\ IdleReader
    /\ IdleReport

\* one iteration of `for p in pairs`
ClassifyStep ==
    /\ pc = "classify_loop"
    /\ k < Len(pairs)
    /\ LET p == pairs[k + 1]
           dl == GetOrZero(coverage.per_pair, p.pair_id)
           rnuc == DepthRatio(dl[1], coverage.nuclear_median)
           rmito == DepthRatio(dl[2], coverage.mito_median)
       IN \E dc \in DepthContrastRange(rnuc, rmito) :
            LET x == ScoreLocus(p, coverage, spans, w, params, dc)
            IN /\ loc' = x
               /\ pairs_tsv' = Append(pairs_tsv, PairsRow(p, x))
               /\ class_tsv' = Append(class_tsv, ClassRow(p, x))
    /\ k' = k + 1
    /\ UNCHANGED <<pc, pairs, coverage, spans, w, params, ret, pairerVars, readerVars, reportVars>>

\* Ok((pairs_tsv, class_tsv))
ClassifyReturn ==
    /\ pc = "classify_loop"
    /\ k = Len(pairs)
    /\ pc' = "classify_done"
    /\ ret' = [tag |-> "Ok", pairs_tsv |-> pairs_tsv, class_tsv |-> class_tsv]
    /\ UNCHANGED <<scoringVars, pairerVars, readerVars, reportVars>>


-----------------------------------------------------------------------------
(* Inputs of pair_and_merge *)

MERGE_GAP == 50

\* every sequence over S of length at most n
SeqsUpTo(S, n) == UNION {[1..m -> S] : m \in 0..n}

\* Driver hits, mito -> nuclear: two nuclear contigs, either side possibly
\* given end before start, identity 0.9 or 1.0
DriverRecords ==
    {FromPaf(RawPaf("mt", 10, 60, "chr1", 100, 150, 180, 200)),
     FromPaf(RawPaf("mt", 60, 10, "chr1", 120, 170, 200, 200)),
     FromPaf(RawPaf("mt", 10, 60, "chr1", 150, 100, 180, 200)),
     FromPaf(RawPaf("mt", 10, 60, "chr2", 100, 150, 200, 200)),
     FromPaf(RawPaf("mt", 60, 10, "chr2", 120, 170, 180, 200)),
     FromPaf(RawPaf("mt", 10, 60, "chr2", 150, 100, 200, 200))}

\* Reciprocal hits, nuclear -> mito: matching and non-matching contig pairs
ReciprocalRecords ==
    {FromPaf(RawPaf("chr1", 300, 350, "mt", 20, 70, 170, 200)),
     FromPaf(RawPaf("chr1", 400, 470, "mt", 0, 70, 190, 200)),
     FromPaf(RawPaf("chr2", 100, 150, "mt", 10, 60, 200, 200)),
     FromPaf(RawPaf("chr1", 100, 150, "mt2", 10, 60, 200, 200))}

ReciprocalLists == SeqsUpTo(ReciprocalRecords, MaxRecip)

InitPairer ==
    /\ pc = "pair_loop"
    /\ m2n \in SeqsUpTo(DriverRecords, MaxDrivers)
    /\ n2m \in ReciprocalLists
    /\ merge_gap \in {0, MERGE_GAP}
    /\ pi = 0
    /\ loci = <<>>
    /\ ret = NoValue
    /\ IdleScoring
    /\ IdleReader
    /\ IdleReport

\* one iteration of `for (i, rec) in m2n.into_iter().enumerate()`
PairStep ==
    /\ pc = "pair_loop"
    /\ pi < Len(m2n)
    /\ loci' = Push(loci, LocusOf(pi, m2n[pi + 1], n2m), merge_gap)
    /\ pi' = pi + 1
    /\ UNCHANGED <<pc, m2n, n2m, merge_gap, ret, scoringVars, readerVars, reportVars>>

\* Ok(loci)
PairReturn ==
    /\ pc = "pair_loop"
    /\ pi = Len(m2n)
    /\ pc' = "pair_done"
    /\ ret' = [tag |-> "Ok", val |-> loci]
    /\ UNCHANGED <<pairerVars, scoringVars, readerVars, reportVars>>

NextPairer == PairStep \/ PairReturn

SpecPairer == InitPairer /\ [][NextPairer]_vars

-----------------------------------------------------------------------------
(* Inputs of read_paf *)

MIN_ID == 900

MIN_LEN == 100

Malformed == [ok |-> FALSE]

WellFormed(matches, alnlen) ==
    [ok |-> TRUE, rec |-> RawPaf("q1", 10, 10 + alnlen, "t1", 100, 100 + alnlen,
                                 matches, alnlen)]

\* The lines of a file as paf::Reader yields them: parsed records (identity
\* 0.9 at length 100, 0.78 at length 500, an empty alignment block, more
\* matches than block length, identity 0.98 at length 50) or a parse error
Lines ==
    {WellFormed(90, 100), WellFormed(390, 500), WellFormed(0, 0),
     WellFormed(150, 100), WellFormed(49, 50), Malformed}

InitReader ==
    /\ pc = "read_start"
    /\ path_exists \in BOOLEAN
    /\ can_open \in (IF path_exists THEN BOOLEAN ELSE {FALSE})
    /\ file \in (IF path_exists THEN SeqsUpTo(Lines, MaxLines) ELSE {<<>>})
    /\ min_id \in {0, MIN_ID, ONE}
    /\ min_len \in {0, MIN_LEN}
    /\ ri = 0
    /\ ours = NoValue
    /\ out = <<>>
    /\ ret = NoValue
    /\ IdleScoring
    /\ IdlePairer
    /\ IdleReport

\* if !path.exists() { return Err(..) }
ReadNotFound ==
    /\ pc = "read_start"
    /\ ~path_exists
    /\ pc' = "read_done"
    /\ ret' = [tag |-> "Err", kind |-> "NotFound"]
    /\ UNCHANGED <<readerVars, scoringVars, pairerVars, reportVars>>

\* paf::Reader::from_path(path).map_err(..)? fails
ReadOpenFail ==
    /\ pc = "read_start"
    /\ path_exists /\ ~can_open
    /\ pc' = "read_done"
    /\ ret' = [tag |-> "Err", kind |-> "OpenFailed"]
    /\ UNCHANGED <<readerVars, scoringVars, pairerVars, reportVars>>

\* the reader is open; let mut out = Vec::new()
ReadOpen ==
    /\ pc = "read_start"
    /\ path_exists /\ can_open
    /\ pc' = "read_loop"
    /\ out' = <<>>
    /\ UNCHANGED <<path_exists, can_open, file, min_id, min_len, ri, ours, ret,
                   scoringVars, pairerVars, reportVars>>

\* one iteration of `for rec in reader.records()`
ReadStep ==
    /\ pc = "read_loop"
    /\ ri < Len(file)
    /\ LET n == OnRecord(file[ri + 1], out, min_id, min_len)
       IN /\ pc' = n.pc
          /\ ours' = n.ours
          /\ out' = n.out
          /\ ret' = n.ret
    /\ ri' = ri + 1
    /\ UNCHANGED <<path_exists, can_open, file, min_id, min_len, scoringVars, pairerVars, reportVars>>

\* Ok(out)
ReadReturn ==
    /\ pc = "read_loop"
    /\ ri = Len(file)
    /\ pc' = "read_done"
    /\ ret' = [tag |-> "Ok", val |-> out]
    /\ UNCHANGED <<readerVars, scoringVars, pairerVars, reportVars>>

NextReader == ReadNotFound \/ ReadOpenFail \/ ReadOpen \/ ReadStep \/ ReadReturn

SpecReader == InitReader /\ [][NextReader]_vars

-----------------------------------------------------------------------------
(* Claims about read_paf, checked under SpecReader *)

AllWellFormed == \A i \in 1..Len(file) : file[i].ok

\* the converted records of the first n lines
Converted(n) == [i \in 1..n |-> FromPaf(file[i].rec)]

PassesBounds(r) == r.identity >= min_id /\ r.alnlen >= min_len

\* C8: on an existing, well-formed file read_paf returns exactly the records
\* with identity >= min_id and alnlen >= min_len, each once and in input
\* order.
C8_ExactFilter ==
    /\ (pc = "read_loop" /\ \A i \in 1..ri : file[i].ok)
          => out = SelectSeq(Converted(ri), PassesBounds)
    /\ (pc = "read_done" /\ path_exists /\ can_open /\ AllWellFormed)
          => /\ ret.tag = "Ok"
             /\ ret.val = SelectSeq(Converted(Len(file)), PassesBounds)

\* C8 witness: a finished read of three well-formed records at the default
\* bounds: the first kept with identity and length on the bounds, one
\* dropped for its identity alone, one for its length alone.
C8_Witness ==
    /\ pc = "read_done" /\ ret.tag = "Ok"
    /\ min_id = MIN_ID /\ min_len = MIN_LEN
    /\ file = <<WellFormed(390, 500), WellFormed(90, 100), WellFormed(49, 50)>>
    /\ Len(ret.val) = 1
    /\ ret.val[1].identity = MIN_ID /\ ret.val[1].alnlen = MIN_LEN

\* C9: the identity of every converted record lies in [0,1] and is 0 when the
\* alignment block length is 0.
C9_IdentityInUnitRange ==
    ours # NoValue =>
        /\ 0 <= ours.identity /\ ours.identity <= ONE
        /\ ours.alnlen = 0 => ours.identity = 0

\* C10: read_paf returns an error when the path does not exist and when any
\* record of the file is malformed; an error carries no records, so nothing
\* parsed before the malformed record is returned.
C10_ErrorsPropagate ==
    pc = "read_done" =>
        /\ ~path_exists => ret.tag = "Err"
        /\ ~AllWellFormed => ret.tag = "Err"
        /\ ret.tag = "Err" => DOMAIN ret = {"tag", "kind"}
        /\ ret.tag = "Ok" => path_exists /\ AllWellFormed

\* C10 witness: a record that passes the filter had been collected when a
\* malformed record ended the read with an error.
C10_Witness ==
    /\ pc = "read_done"
    /\ ret.tag = "Err"
    /\ path_exists /\ can_open
    /\ Len(file) >= 2
    /\ file[1].ok /\ PassesBounds(FromPaf(file[1].rec))
    /\ ~file[2].ok

\* C10 witness of the other case: the path does not exist
C10_NotFoundReached == pc = "read_done" /\ ~path_exists /\ ret.tag = "Err"

-----------------------------------------------------------------------------
(* Claims about pair_and_merge, checked under SpecPairer *)

\* C5: one locus per driver record, in driver order, the i-th (1-based) with
\* pair_id "P" and i zero-padded to six digits; no two drivers are merged,
\* whatever their overlap or merge_gap.
C5_OneLocusPerDriver ==
    /\ pc \in {"pair_loop", "pair_done"} => Len(loci) = pi
    /\ pc = "pair_done" =>
          /\ ret.tag = "Ok"
          /\ Len(ret.val) = Len(m2n)
          /\ \A i \in 1..Len(m2n) :
                /\ ret.val[i].pair_id = PairId(i - 1)
                /\ Len(ret.val[i].pair_id) = 7
                /\ ret.val[i].nuc_contig = m2n[i].tname
                /\ ret.val[i].mito_contig = m2n[i].qname
                /\ {ret.val[i].nuc_start, ret.val[i].nuc_end} = {m2n[i].tstart, m2n[i].tend}
                /\ {ret.val[i].mito_start, ret.val[i].mito_end} = {m2n[i].qstart, m2n[i].qend}
                /\ ret.val[i].aln_len = m2n[i].alnlen

\* C5 witness: two identical (fully overlapping) drivers with a positive
\* merge_gap have given two loci, P000001 and P000002.
C5_Witness ==
    /\ pc = "pair_done"
    /\ Len(m2n) = 2 /\ m2n[1] = m2n[2]
    /\ merge_gap = MERGE_GAP
    /\ Len(ret.val) = 2
    /\ ret.val[1].pair_id = "P000001" /\ ret.val[2].pair_id = "P000002"

\* A locus without its identity
Strip(l) ==
    [pair_id |-> l.pair_id, nuc_contig |-> l.nuc_contig, nuc_start |-> l.nuc_start,
     nuc_end |-> l.nuc_end, mito_contig |-> l.mito_contig,
     mito_start |-> l.mito_start, mito_end |-> l.mito_end, aln_len |-> l.aln_len]

\* The loci pair_and_merge returns for drivers d and reciprocal hits r
PairAndMerge(d, r) == [j \in 1..Len(d) |-> LocusOf(j - 1, d[j], r)]

\* C6: for a fixed driver list, the loci of the run and the loci obtained with
\* any other reciprocal list agree in pair_ids, contigs, coordinates and
\* aln_len (only aln_ident may differ).
C6_ReciprocalIndependent ==
    pc = "pair_done" =>
        \A r \in ReciprocalLists :
            LET other == PairAndMerge(m2n, r)
            IN /\ Len(other) = Len(ret.val)
               /\ \A j \in 1..Len(other) : Strip(other[j]) = Strip(ret.val[j])

\* C6 witness: a finished run whose reciprocal list raised the identity of a
\* locus, so that another reciprocal list gives a different aln_ident.
C6_Witness ==
    /\ pc = "pair_done"
    /\ Len(ret.val) = 2
    /\ Matching(n2m, m2n[1]) # {}
    /\ \E r \in ReciprocalLists : PairAndMerge(m2n, r) # ret.val

\* the identities of the reciprocal records that match driver record rec
MatchIdentities(rec) ==
    {n2m[j].identity : j \in {j \in 1..Len(n2m) :
                                 n2m[j].qname = rec.tname /\ n2m[j].tname = rec.qname}}

\* C7: the identity of a locus is the larger of the driver's identity and the
\* largest identity of a matching reciprocal record when one exists, and the
\* driver's identity otherwise; it is never below the driver's identity.
C7_LocusIdentity ==
    \A i \in 1..Len(loci) :
        LET rec == m2n[i]
            ids == MatchIdentities(rec)
        IN /\ ids = {} => loci[i].aln_ident = rec.identity
           /\ ids # {} =>
                 /\ loci[i].aln_ident \in ids \cup {rec.identity}
                 /\ \A x \in ids \cup {rec.identity} : x <= loci[i].aln_ident
           /\ loci[i].aln_ident >= rec.identity

\* C7 witness: one locus took its identity from a reciprocal record that is
\* not the first matching one, another kept the driver's identity although a
\* reciprocal record matched.
C7_Witness ==
    /\ Len(loci) = 2
    /\ Cardinality(MatchIdentities(m2n[1])) = 2
    /\ loci[1].aln_ident > m2n[1].identity
    /\ MatchIdentities(m2n[2]) # {}
    /\ loci[2].aln_ident = m2n[2].identity
    /\ \A x \in MatchIdentities(m2n[2]) : x < m2n[2].identity

\* C26: every locus has nuc_start <= nuc_end and mito_start <= mito_end,
\* the mito interval being the driver's query start and end in ascending
\* order and the nuclear interval the driver's target start and end in
\* ascending order, each side on its own; nuc_contig is the driver's target
\* name and mito_contig its query name.
C26_IntervalsNormalised ==
    /\ Len(loci) = pi
    /\ \A i \in 1..Len(loci) :
          LET rec == m2n[i]
              x == loci[i]
          IN /\ x.nuc_start <= x.nuc_end
             /\ x.mito_start <= x.mito_end
             /\ {x.mito_start, x.mito_end} = {rec.qstart, rec.qend}
             /\ {x.nuc_start, x.nuc_end} = {rec.tstart, rec.tend}
             /\ x.nuc_contig = rec.tname
             /\ x.mito_contig = rec.qname

\* C26 witness: one driver with a descending query interval only, one with
\* a descending target interval only
C26_Witness ==
    /\ pc = "pair_done"
    /\ Len(loci) = 2
    /\ m2n[1].qstart > m2n[1].qend /\ m2n[1].tstart < m2n[1].tend
    /\ m2n[2].tstart > m2n[2].tend /\ m2n[2].qstart < m2n[2].qend
    /\ loci[1].mito_start = m2n[1].qend /\ loci[1].nuc_start = m2n[1].tstart
    /\ loci[2].nuc_start = m2n[2].tend /\ loci[2].mito_start = m2n[2].qstart

-----------------------------------------------------------------------------
(* Claims about classify_pairs, checked under SpecScoring.  loc holds the   *)
(* locals of the iteration that wrote the last row, class_tsv[k].          *)

\* C1: the call of a locus is decided from diff = score_numt - score_nimt
\* alone: Likely_NUMT if diff >= call_threshold, otherwise Likely_NIMT if
\* -diff >= call_threshold, otherwise Ambiguous; the confidence handed to the
\* row is |diff|, written with four decimals.
C1_DecisionFromDiff ==
    loc # NoValue =>
        LET diff == loc.score_numt - loc.score_nimt
            thr == params.call_threshold * ONE
            row == class_tsv[k]
        IN /\ row.call = IF diff >= thr THEN "Likely_NUMT"
                         ELSE IF -diff >= thr THEN "Likely_NIMT"
                         ELSE "Ambiguous"
           /\ loc.delta = Abs(diff)
           /\ row.confidence = Fmt4(Abs(diff))
           /\ row.pair_id = pairs[k].pair_id

\* C1 witness: a locus called Likely_NIMT by the second test, with a
\* confidence that the rounding to four decimals changes.
C1_Witness ==
    /\ loc # NoValue
    /\ class_tsv[k].call = "Likely_NIMT"
    /\ loc.score_nimt - loc.score_numt >= params.call_threshold * ONE
    /\ params.call_threshold > 0
    /\ class_tsv[k].confidence * 100 # loc.delta

\* C2: the two scores are the formulas of the specification, unsimplified:
\* base + pro - penalty + boost for NUMT and the mirrored sum for NIMT, with
\* d_numt = clamp01(1 - |r_nuc - 1|), d_nimt = clamp01(1 - |r_mito - 1|) and
\* span_contrast = s_nuc - s_mito.
C2_ScoreFormulas ==
    loc # NoValue =>
        LET x == loc
            base == w.w_a * x.a + w.w_l * x.l
        IN /\ x.a = clamp01(pairs[k].aln_ident)
           /\ x.base = base
           /\ x.d_numt = clamp01(ONE - Abs(x.rnuc - ONE))
           /\ x.d_nimt = clamp01(ONE - Abs(x.rmito - ONE))
           /\ x.span_contrast = x.s_nuc - x.s_mito
           /\ x.score_numt =
                  base + (w.w_d * x.d_numt + w.w_s * x.s_nuc)
                       - (w.w_d * x.d_nimt + w.w_s * x.s_mito)
                       + (w.w_d * x.depth_contrast + w.w_s * x.span_contrast)
           /\ x.score_nimt =
                  base + (w.w_d * x.d_nimt + w.w_s * x.s_mito)
                       - (w.w_d * x.d_numt + w.w_s * x.s_nuc)
                       - (w.w_d * x.depth_contrast + w.w_s * x.span_contrast)
           /\ pairs_tsv[k].score_numt = Fmt4(x.score_numt)
           /\ pairs_tsv[k].score_nimt = Fmt4(x.score_nimt)

\* C2 witness: a locus scored with non-default weights in which every term of
\* the formulas is non-zero.
C2_Witness ==
    /\ loc # NoValue
    /\ w # DefaultWeights
    /\ loc.base > 0
    /\ loc.d_numt > 0 /\ loc.d_nimt > 0
    /\ loc.s_nuc > 0 /\ loc.s_mito > 0
    /\ loc.depth_contrast # 0 /\ loc.span_contrast # 0
    /\ loc.score_numt # loc.score_nimt

\* The locus of end-to-end scenario 1
IsScenario1 ==
    /\ loc # NoValue
    /\ loc.rnuc = ONE /\ loc.rmito = 330
    /\ loc.s_nuc = 800 /\ loc.s_mito = 100
    /\ pairs[k].aln_ident = 980 /\ pairs[k].aln_len = 5000
    /\ w = DefaultWeights
    /\ params.call_threshold = CALL_THRESHOLD

\* C3: the locus with r_nuc = 1.0, r_mito = 0.33, s_nuc = 0.8, s_mito = 0.1,
\* identity 0.98, length 5000, default weights and default threshold is
\* classified Likely_NUMT, whatever positive value depth_contrast takes.
C3_Scenario1IsNumt ==
    IsScenario1 => /\ loc.depth_contrast > 0
                   /\ loc.call = "NUMT"
                   /\ class_tsv[k].call = "Likely_NUMT"

\* C3 witness: scenario 1 has been scored, with the smallest depth_contrast.
C3_Witness == IsScenario1 /\ loc.depth_contrast = 1

\* The locus of end-to-end scenario 3
IsScenario3 ==
    /\ loc # NoValue
    /\ loc.rnuc = ONE /\ loc.rmito = ONE
    /\ loc.s_nuc = 500 /\ loc.s_mito = 500
    /\ params.call_threshold = CALL_THRESHOLD

\* C4: a locus whose scores differ by less than call_threshold is Ambiguous;
\* the locus with both depth ratios 1.0 and both span fractions 0.5 is
\* Ambiguous under the default threshold.
C4_BelowThresholdAmbiguous ==
    loc # NoValue =>
        /\ (Abs(loc.score_numt - loc.score_nimt) < params.call_threshold * ONE
              => class_tsv[k].call = "Ambiguous")
        /\ (IsScenario3 => class_tsv[k].call = "Ambiguous")

\* C4 witness: a locus with a non-zero score difference below the threshold
\* has been classified.
C4_Witness ==
    /\ loc # NoValue
    /\ loc.score_numt # loc.score_nimt
    /\ Abs(loc.score_numt - loc.score_nimt) < params.call_threshold * ONE
    /\ class_tsv[k].call = "Ambiguous"

\* C4 witness of the scenario itself is reachable as well
C4_Scenario3Reached == IsScenario3

\* C19: the classification table has exactly one row per input locus, in the
\* order of the input; the call of every row is Likely_NUMT, Likely_NIMT or
\* Ambiguous; reason_codes is score_difference exactly when the call is
\* Likely_NUMT or Likely_NIMT and delta_below_threshold exactly when the call
\* is Ambiguous.
C19_OneRowPerLocus ==
    pc \in {"classify_loop", "classify_done"} =>
        /\ Len(class_tsv) = k
        /\ pc = "classify_done" =>
              /\ ret.class_tsv = class_tsv
              /\ Len(ret.class_tsv) = Len(pairs)
        /\ \A i \in 1..Len(class_tsv) :
              /\ class_tsv[i].pair_id = pairs[i].pair_id
              /\ class_tsv[i].call \in {"Likely_NUMT", "Likely_NIMT", "Ambiguous"}
              /\ (class_tsv[i].reason_codes = "score_difference") <=>
                    (class_tsv[i].call \in {"Likely_NUMT", "Likely_NIMT"})
              /\ (class_tsv[i].reason_codes = "delta_below_threshold") <=>
                    (class_tsv[i].call = "Ambiguous")

\* C19 witness: a list of more than one locus has been classified, the first
\* row a directed call and the last one Ambiguous
C19_Witness ==
    /\ pc = "classify_done"
    /\ Len(pairs) > 1
    /\ Len(ret.class_tsv) = Len(pairs)
    /\ ret.class_tsv[1].pair_id = PairId(0)
    /\ ret.class_tsv[1].call = "Likely_NUMT"
    /\ ret.class_tsv[1].reason_codes = "score_difference"
    /\ ret.class_tsv[Len(pairs)].pair_id = PairId(Len(pairs) - 1)
    /\ ret.class_tsv[Len(pairs)].call = "Ambiguous"
    /\ ret.class_tsv[Len(pairs)].reason_codes = "delta_below_threshold"

\* C19 second witness: a row with the call Likely_NIMT after another row
C19_NimtRowReached ==
    /\ pc = "classify_done"
    /\ Len(pairs) > 1
    /\ ret.class_tsv[2].pair_id = PairId(1)
    /\ ret.class_tsv[2].call = "Likely_NIMT"
    /\ ret.class_tsv[2].reason_codes = "score_difference"

\* whether r is local / med in thousandths, truncated
IsRatio(r, local, med) == r * med <= ONE * local /\ ONE * local < (r + 1) * med

\* C25: the depth ratio of a side is local_depth / global_median when the
\* median is positive and 0 when it is 0; a locus whose pair_id is absent
\* from the coverage map (span map) is scored with local depths (span
\* fractions) (0, 0), and classify_pairs does not fail.
C25_RatioAndMissingEntries ==
    /\ (pc \in {"classify_loop", "classify_done"} /\ k > 0) =>
          LET id == pairs[k].pair_id
              inCov == id \in DOMAIN coverage.per_pair
              inSp == id \in DOMAIN spans.per_pair
              dnuc == IF inCov THEN coverage.per_pair[id][1] ELSE 0
              dmito == IF inCov THEN coverage.per_pair[id][2] ELSE 0
          IN /\ IF coverage.nuclear_median > 0
                THEN IsRatio(loc.rnuc, dnuc, coverage.nuclear_median)
                ELSE loc.rnuc = 0
             /\ IF coverage.mito_median > 0
                THEN IsRatio(loc.rmito, dmito, coverage.mito_median)
                ELSE loc.rmito = 0
             /\ ~inCov => loc.rnuc = 0 /\ loc.rmito = 0
             /\ loc.s_nuc = (IF inSp THEN spans.per_pair[id][1] ELSE 0)
             /\ loc.s_mito = (IF inSp THEN spans.per_pair[id][2] ELSE 0)
             /\ Len(class_tsv) = k
    /\ pc = "classify_done" => ret.tag = "Ok" /\ Len(ret.class_tsv) = Len(pairs)

\* C25 witness: a locus absent from both maps, medians positive, is scored
C25_Witness ==
    /\ pc = "classify_done"
    /\ k > 0
    /\ pairs[k].pair_id \notin DOMAIN coverage.per_pair
    /\ pairs[k].pair_id \notin DOMAIN spans.per_pair
    /\ coverage.nuclear_median > 0 /\ coverage.mito_median > 0
    /\ loc.rnuc = 0 /\ loc.s_mito = 0
    /\ ret.tag = "Ok"

\* C25 second witness: a positive local depth over a zero median
C25_ZeroMedianReached ==
    /\ pc = "classify_done"
    /\ k > 0
    /\ coverage.nuclear_median = 0
    /\ coverage.mito_median > 0
    /\ pairs[k].pair_id \in DOMAIN coverage.per_pair
    /\ coverage.per_pair[pairs[k].pair_id][1] > 0
    /\ loc.rnuc = 0
    /\ loc.rmito > 0

\* the coverage summary with the nuclear and the mito side exchanged
SwapCoverage(cov) ==
    [nuclear_median |-> cov.mito_median, mito_median |-> cov.nuclear_median,
     per_pair |-> [id \in DOMAIN cov.per_pair |-> <<cov.per_pair[id][2], cov.per_pair[id][1]>>]]

\* the span summary with the nuclear and the mito side exchanged
SwapSpans(sp) ==
    [per_pair |-> [id \in DOMAIN sp.per_pair |-> <<sp.per_pair[id][2], sp.per_pair[id][1]>>]]

SwapCall(call) ==
    CASE call = "NUMT" -> "NIMT"
      [] call = "NIMT" -> "NUMT"
      [] OTHER -> call

\* the last locus scored on the exchanged inputs; tanh and log2 being odd,
\* its depth_contrast is the negated one
Mirrored ==
    ScoreLocus(pairs[k], SwapCoverage(coverage), SwapSpans(spans), w, params,
               -loc.depth_contrast)

\* The locus of end-to-end scenario 2
IsScenario2 ==
    /\ loc # NoValue
    /\ loc.rnuc = 330 /\ loc.rmito = ONE
    /\ loc.s_nuc = 100 /\ loc.s_mito = 800
    /\ w = DefaultWeights
    /\ params.call_threshold = CALL_THRESHOLD

C27_AmbiguousReached ==
    /\ pc = "classify_done" /\ k > 0
    /\ params.call_threshold > 0
    /\ loc.call = "Ambiguous"
    /\ loc.score_numt # loc.score_nimt

\* C29: every locus gets exactly one call; when call_threshold > 0 the NUMT
\* condition (diff >= threshold) and the NIMT condition (-diff >= threshold)
\* are never both true and a locus with diff = 0 is Ambiguous, so testing
\* the two conditions in the other order gives the same call.
C29_OneCallOrderFree ==
    (pc \in {"classify_loop", "classify_done"} /\ k > 0) =>
        LET diff == loc.score_numt - loc.score_nimt
            thr == params.call_threshold * ONE
            isNumt == diff >= thr
            isNimt == -diff >= thr
        IN /\ loc.call \in {"NUMT", "NIMT", "Ambiguous"}
           /\ Len(class_tsv) = k
           /\ class_tsv[k].call \in {"Likely_NUMT", "Likely_NIMT", "Ambiguous"}
           /\ Cardinality({c \in {"NUMT", "NIMT", "Ambiguous"} : CallStr(c)[1] = class_tsv[k].call}) = 1
           /\ params.call_threshold > 0 =>
                 /\ ~(isNumt /\ isNimt)
                 /\ (loc.call = "NUMT") = isNumt
                 /\ (loc.call = "NIMT") = isNimt
                 /\ diff = 0 => loc.call = "Ambiguous"
                 /\ loc.call = DecideNimtFirst(loc.score_numt, loc.score_nimt,
                                               params.call_threshold)

\* C29 witness: equal scores under the default threshold, called Ambiguous
C29_Witness ==
    /\ pc = "classify_done" /\ k > 0
    /\ params.call_threshold = CALL_THRESHOLD
    /\ loc.score_numt = loc.score_nimt
    /\ loc.call = "Ambiguous"
    /\ class_tsv[k].call = "Ambiguous"

\* with call_threshold = 0 both conditions hold for equal scores and the
\* first test decides
C29_ZeroThresholdReached ==
    /\ pc = "classify_done" /\ k > 0
    /\ params.call_threshold = 0
    /\ loc.score_numt = loc.score_nimt
    /\ loc.call = "NUMT"

-----------------------------------------------------------------------------
(* summary.rs: union_len and union_len_all *)

coreVars == <<scoringVars, pairerVars, readerVars, windowVars>>

IdleCore == IdleScoring /\ IdlePairer /\ IdleReader /\ IdleWindow

\* most intervals in the map handed to union_len_all
MaxIntervals == 3

\* the sum of the values of a map
SumOf(f) ==
    LET S[T \in SUBSET DOMAIN f] ==
            IF T = {} THEN 0
            ELSE LET c == CHOOSE c \in T : TRUE IN f[c] + S[T \ {c}]
    IN S[DOMAIN f]

\* the order of the sort key (x.0, x.1)
KeyLess(a, b) == a[1] < b[1] \/ (a[1] = b[1] /\ a[2] < b[2])

\* the vector left as it was pushed
SortByKeyLeaveOrder(v) == v

\* v.sort_by_key(|x| (x.0, x.1)), a stable sort
SortByKey(v) ==
    LET n == Len(v)
        rank(i) == Cardinality({j \in 1..n : \/ KeyLess(v[j], v[i])
                                             \/ (v[j] = v[i] /\ j < i)}) + 1
    IN [r \in 1..n |-> v[CHOOSE i \in 1..n : rank(i) = r]]

\* cur.1 = e, the running end overwritten
AbsorbLastEnd(cur, iv) == <<cur[1], iv[2]>>

\* cur.1 = cur.1.max(e)
Absorb(cur, iv) == <<cur[1], Max2(cur[2], iv[2])>>

\* union_len: sort, then merge each interval that starts at or before the
\* running end and close the running interval at each gap
union_len(v) ==
    IF v = <<>> THEN 0
    ELSE LET s == SortByKey(v)
             n == Len(s)
             st[i \in 1..n] ==
                 IF i = 1 THEN [cur |-> s[1], total |-> 0]
                 ELSE LET p == st[i - 1]
                      IN IF s[i][1] <= p.cur[2]
                         THEN [cur |-> Absorb(p.cur, s[i]), total |-> p.total]
                         ELSE [cur |-> s[i],
                               total |-> p.total + (p.cur[2] - p.cur[1])]
         IN st[n].total + (st[n].cur[2] - st[n].cur[1])

\* union_len_all: m.values().map(|v| union_len(v.clone())).sum()
union_len_all(m) == SumOf([c \in DOMAIN m |-> union_len(m[c])])

(* Inputs of union_len_all *)

Coords == 0..3

\* the half-open intervals (start, end) with start <= end
Intervals == {iv \in Coords \X Coords : iv[1] <= iv[2]}

\* the map that pushing the entries <<contig, interval>> of seq builds
MapOf(seq) ==
    LET cs == {seq[i][1] : i \in 1..Len(seq)}
        of(c) == SelectSeq(seq, LAMBDA x : x[1] = c)
    IN [c \in cs |-> [i \in 1..Len(of(c)) |-> of(c)[i][2]]]

\* the maps of the unit tests union_merges_overlaps and add_and_union_per_contig
ExampleMaps ==
    {MapOf(<< <<"chr1", <<0, 10>>>>, <<"chr1", <<5, 20>>>>, <<"chr1", <<30, 40>>>> >>),
     MapOf(<< <<"chr1", <<0, 10>>>>, <<"chr1", <<5, 20>>>>, <<"chr2", <<0, 5>>>> >>)}

\* what is pushed: every interval on chr1, two overlapping ones on chr2
Entries == ({"chr1"} \X Intervals) \cup ({"chr2"} \X {<<0, 2>>, <<1, 3>>})

IntervalMaps ==
    {MapOf(seq) : seq \in SeqsUpTo(Entries, MaxIntervals)} \cup ExampleMaps

InitUnion ==
    /\ pc = "union_loop"
    /\ um \in IntervalMaps
    /\ ulens = <<>>
    /\ usum = 0
    /\ ret = NoValue
    /\ IdleCore
    /\ IdleSummary
    /\ IdleEstimator
    /\ IdlePipeline

\* one value of m.values(), which come in the order of the hash map
UnionLenAllStep ==
    /\ pc = "union_loop"
    /\ \E c \in DOMAIN um \ DOMAIN ulens :
         /\ ulens' = [d \in DOMAIN ulens \cup {c} |->
                        IF d = c THEN union_len(um[c]) ELSE ulens[d]]
         /\ usum' = usum + union_len(um[c])
    /\ UNCHANGED <<pc, um, ret, coreVars, summaryVars, estimatorVars, pipelineVars>>

\* the sum is returned
UnionLenAllReturn ==
    /\ pc = "union_loop"
    /\ DOMAIN um = DOMAIN ulens
    /\ pc' = "union_done"
    /\ ret' = [tag |-> "Ok", val |-> usum]
    /\ UNCHANGED <<unionVars, coreVars, summaryVars, estimatorVars, pipelineVars>>

NextUnion == UnionLenAllStep \/ UnionLenAllReturn

SpecUnion == InitUnion /\ [][NextUnion]_vars

(* Claims about union_len and union_len_all *)

\* the positions that at least one interval of v covers
Covered(v) == UNION {v[i][1]..(v[i][2] - 1) : i \in 1..Len(v)}

\* C11: union_len returns the number of distinct positions that at least one
\* interval of the list covers (overlapping and touching intervals counted
\* once, disjoint ones summed), and union_len_all returns the sum of these
\* numbers over the contigs, intervals of different contigs never merged.
C11_UnionCountsPositions ==
    pc \in {"union_loop", "union_done"} =>
        /\ \A c \in DOMAIN um : union_len(um[c]) = Cardinality(Covered(um[c]))
        /\ \A c \in DOMAIN ulens : ulens[c] = Cardinality(Covered(um[c]))
        /\ usum = SumOf([c \in DOMAIN ulens |-> Cardinality(Covered(um[c]))])
        /\ pc = "union_done" =>
              ret.val = SumOf([c \in DOMAIN um |-> Cardinality(Covered(um[c]))])

\* C11 witness: the map of add_and_union_per_contig has been summed to 25,
\* chr1 = 20 from two overlapping intervals and chr2 = 5
C11_Witness ==
    /\ pc = "union_done"
    /\ DOMAIN um = {"chr1", "chr2"}
    /\ um["chr1"] = << <<0, 10>>, <<5, 20>> >>
    /\ ulens["chr1"] = 20
    /\ ulens["chr2"] = 5
    /\ ret.val = 25

\* C11 second witness: touching, nested and disjoint intervals on one contig
C11_TouchingNestedReached ==
    /\ pc = "union_done"
    /\ DOMAIN um = {"chr1"}
    /\ um["chr1"] = << <<0, 3>>, <<1, 2>>, <<3, 3>> >>
    /\ ret.val = 3


\* the reorderings of a vector
Perms(v) ==
    {[i \in 1..Len(v) |-> v[f[i]]] :
        f \in {g \in [1..Len(v) -> 1..Len(v)] : \A i, j \in 1..Len(v) : g[i] = g[j] => i = j}}

\* the maximal runs of covered positions: the merged, pairwise disjoint intervals
Runs(v) ==
    {iv \in (Covered(v) \X {x + 1 : x \in Covered(v)}) :
        /\ iv[1] < iv[2]
        /\ iv[1]..(iv[2] - 1) \subseteq Covered(v)
        /\ iv[1] - 1 \notin Covered(v)
        /\ iv[2] \notin Covered(v)}

\* a set of intervals as a vector
SeqOf(S) ==
    CHOOSE f \in [1..Cardinality(S) -> S] : \A x \in S : \E i \in 1..Cardinality(S) : f[i] = x

\* C12: the union length does not depend on the order of the intervals and
\* is idempotent: every reordering of a vector has the union length of the
\* vector, the merged disjoint intervals of the vector have the same union
\* length, and pushing an interval that the vector already covers leaves the
\* union length unchanged.
C12_OrderIndependentIdempotent ==
    pc = "union_done" =>
        \A c \in DOMAIN um :
            /\ \A p \in Perms(um[c]) : union_len(p) = ulens[c]
            /\ union_len(SeqOf(Runs(um[c]))) = ulens[c]
            /\ \A iv \in Intervals :
                  iv[1]..(iv[2] - 1) \subseteq Covered(um[c]) =>
                      union_len(Append(um[c], iv)) = ulens[c]

\* C12 witness: a vector pushed out of order whose intervals overlap, so that
\* sorting and merging both change it
C12_Witness ==
    /\ pc = "union_done"
    /\ "chr1" \in DOMAIN um
    /\ um["chr1"] = << <<2, 3>>, <<0, 2>>, <<0, 1>> >>
    /\ SortByKey(um["chr1"]) # um["chr1"]
    /\ Runs(um["chr1"]) = {<<0, 3>>}
    /\ ulens["chr1"] = 3

-----------------------------------------------------------------------------
(* summary.rs: compute_percentages.  Percentages are in thousandths of a   *)
(* percent (100 * ONE is 100%), truncated.                                 *)

\* most loci handed to compute_percentages
MaxLoci == 2

\* the denominator floored at one
PctFloored(numer, denom) == (100 * ONE * numer) \div Max2(denom, 1)

\* pct: 0.0 for a zero denominator, 100 * numer / denom otherwise
pct(numer, denom) == IF denom = 0 THEN 0 ELSE (100 * ONE * numer) \div denom

\* add_interval: an empty or inverted interval is dropped, any other one is
\* pushed on the vector of its contig
add_interval(map, contig, start, end) ==
    IF start >= end THEN map
    ELSE [c \in DOMAIN map \cup {contig} |->
            IF c = contig
            THEN Append(IF c \in DOMAIN map THEN map[c] ELSE <<>>, <<start, end>>)
            ELSE map[c]]

\* calls.get(&p.pair_id).map(String::as_str).unwrap_or("Ambiguous")
CallOf(cl, id) == IF id \in DOMAIN cl THEN cl[id] ELSE "Ambiguous"

\* the match with the default arm counted as a NUMT
OnLocusDefaultNumt(c, p, call) ==
    IF call = "Likely_NIMT"
    THEN [c EXCEPT
            !.n_nimt = @ + 1,
            !.mito_intervals_nimt = add_interval(@, p.mito_contig, p.mito_start, p.mito_end),
            !.nuc_intervals_from_nimt = add_interval(@, p.nuc_contig, p.nuc_start, p.nuc_end)]
    ELSE [c EXCEPT
            !.n_numt = @ + 1,
            !.nuc_intervals_numt = add_interval(@, p.nuc_contig, p.nuc_start, p.nuc_end),
            !.mito_intervals_from_numt = add_interval(@, p.mito_contig, p.mito_start, p.mito_end)]

\* match call { "Likely_NUMT" => .., "Likely_NIMT" => .., _ => {} }
OnLocus(c, p, call) ==
    IF call = "Likely_NUMT"
    THEN [c EXCEPT
            !.n_numt = @ + 1,
            !.nuc_intervals_numt = add_interval(@, p.nuc_contig, p.nuc_start, p.nuc_end),
            !.mito_intervals_from_numt = add_interval(@, p.mito_contig, p.mito_start, p.mito_end)]
    ELSE IF call = "Likely_NIMT"
    THEN [c EXCEPT
            !.n_nimt = @ + 1,
            !.mito_intervals_nimt = add_interval(@, p.mito_contig, p.mito_start, p.mito_end),
            !.nuc_intervals_from_nimt = add_interval(@, p.nuc_contig, p.nuc_start, p.nuc_end)]
    ELSE c

\* the Summary that is returned
SummaryOf(c, n_pairs, mito_bp_total, nuclear_bp_total) ==
    LET nuclear_bp_numt == union_len_all(c.nuc_intervals_numt)
        mito_bp_nimt == union_len_all(c.mito_intervals_nimt)
        mito_bp_covered_by_numt_homologs == union_len_all(c.mito_intervals_from_numt)
        nuc_bp_covered_by_nimt_homologs == union_len_all(c.nuc_intervals_from_nimt)
    IN [n_pairs |-> n_pairs, n_numt |-> c.n_numt, n_nimt |-> c.n_nimt,
        nuclear_bp_total |-> nuclear_bp_total,
        nuclear_bp_numt |-> nuclear_bp_numt,
        nuclear_pct_numt |-> pct(nuclear_bp_numt, nuclear_bp_total),
        mito_bp_total |-> mito_bp_total,
        mito_bp_nimt |-> mito_bp_nimt,
        mito_pct_nimt |-> pct(mito_bp_nimt, mito_bp_total),
        mito_bp_covered_by_numt_homologs |-> mito_bp_covered_by_numt_homologs,
        mito_pct_covered_by_numt_homologs |->
            pct(mito_bp_covered_by_numt_homologs, mito_bp_total),
        nuc_bp_covered_by_nimt_homologs |-> nuc_bp_covered_by_nimt_homologs,
        nuc_pct_covered_by_nimt_homologs |->
            pct(nuc_bp_covered_by_nimt_homologs, nuclear_bp_total)]

(* Inputs of compute_percentages *)

\* a locus with its nuclear and its mitochondrial interval
SummaryLocus(nc, ns, ne, ms, me) ==
    [pair_id |-> "", nuc_contig |-> nc, nuc_start |-> ns, nuc_end |-> ne,
     mito_contig |-> "mt", mito_start |-> ms, mito_end |-> me]

\* two overlapping loci of chr1, one of chr2, one with an empty nuclear interval
SummaryLoci ==
    {SummaryLocus("chr1", 0, 2, 0, 2), SummaryLocus("chr1", 1, 3, 2, 3),
     SummaryLocus("chr2", 0, 3, 0, 3), SummaryLocus("chr1", 2, 2, 1, 2)}

\* every list of at most MaxLoci loci with pair ids P000001.. in order
SummaryPairs ==
    {[i \in 1..Len(f) |-> [f[i] EXCEPT !.pair_id = PairId(i - 1)]] :
        f \in SeqsUpTo(SummaryLoci, MaxLoci)}

\* the three calls and a string that is none of them
CallVals == {"Likely_NUMT", "Likely_NIMT", "Ambiguous", "likely_numt"}

\* what fasta::contig_lengths returns: an error or a map contig -> length
LengthsErr == [tag |-> "Err", kind |-> "fasta"]

LengthsOk(m) == [tag |-> "Ok", val |-> m]

MitoLengths == {LengthsErr, LengthsOk([c \in {"mt"} |-> 0]), LengthsOk([c \in {"mt"} |-> 3])}

NucLengths ==
    {LengthsErr, LengthsOk([c \in {"chr1"} |-> 2]), LengthsOk([c \in {"chr1", "chr2"} |-> 3])}

InitSummary ==
    /\ pc = "summary_start"
    /\ mito_lens \in MitoLengths
    /\ nuc_lens \in NucLengths
    /\ sum_pairs \in SummaryPairs
    /\ calls \in UNION {[S -> CallVals] :
                          S \in SUBSET {sum_pairs[i].pair_id : i \in 1..Len(sum_pairs)}}
    /\ si = 0
    /\ cp = NoValue
    /\ ret = NoValue
    /\ IdleCore
    /\ IdleUnion
    /\ IdleEstimator
    /\ IdlePipeline

\* fasta::contig_lengths(..)? fails for one of the two assemblies
SummaryLengthsFail ==
    /\ pc = "summary_start"
    /\ mito_lens.tag = "Err" \/ nuc_lens.tag = "Err"
    /\ pc' = "summary_done"
    /\ ret' = IF mito_lens.tag = "Err" THEN mito_lens ELSE nuc_lens
    /\ UNCHANGED <<summaryVars, coreVars, unionVars, estimatorVars, pipelineVars>>

\* the counters and the four interval maps start empty
SummaryBegin ==
    /\ pc = "summary_start"
    /\ mito_lens.tag = "Ok" /\ nuc_lens.tag = "Ok"
    /\ pc' = "summary_loop"
    /\ cp' = [n_numt |-> 0, n_nimt |-> 0,
              nuc_intervals_numt |-> <<>>, mito_intervals_nimt |-> <<>>,
              mito_intervals_from_numt |-> <<>>, nuc_intervals_from_nimt |-> <<>>]
    /\ UNCHANGED <<mito_lens, nuc_lens, sum_pairs, calls, si, ret,
                   coreVars, unionVars, estimatorVars, pipelineVars>>

\* one iteration of `for p in pairs`
SummaryStep ==
    /\ pc = "summary_loop"
    /\ si < Len(sum_pairs)
    /\ cp' = OnLocus(cp, sum_pairs[si + 1], CallOf(calls, sum_pairs[si + 1].pair_id))
    /\ si' = si + 1
    /\ UNCHANGED <<pc, mito_lens, nuc_lens, sum_pairs, calls, ret,
                   coreVars, unionVars, estimatorVars, pipelineVars>>

\* the union lengths, the percentages and Ok(Summary {..})
SummaryReturn ==
    /\ pc = "summary_loop"
    /\ si = Len(sum_pairs)
    /\ pc' = "summary_done"
    /\ ret' = [tag |-> "Ok",
               val |-> SummaryOf(cp, Len(sum_pairs), SumOf(mito_lens.val), SumOf(nuc_lens.val))]
    /\ UNCHANGED <<summaryVars, coreVars, unionVars, estimatorVars, pipelineVars>>

NextSummary == SummaryLengthsFail \/ SummaryBegin \/ SummaryStep \/ SummaryReturn

SpecSummary == InitSummary /\ [][NextSummary]_vars


(* Claims about compute_percentages *)

\* the loci whose entry in the call map is the string c
LociCalled(c) ==
    {i \in 1..Len(sum_pairs) :
        /\ sum_pairs[i].pair_id \in DOMAIN calls
        /\ calls[sum_pairs[i].pair_id] = c}

\* the number of nuclear positions that the loci I cover, contig by contig
NucBp(I) ==
    SumOf([c \in {sum_pairs[i].nuc_contig : i \in I} |->
             Cardinality(UNION {sum_pairs[i].nuc_start..(sum_pairs[i].nuc_end - 1) :
                                  i \in {j \in I : sum_pairs[j].nuc_contig = c}})])

\* the number of mitochondrial positions that the loci I cover, contig by contig
MitoBp(I) ==
    SumOf([c \in {sum_pairs[i].mito_contig : i \in I} |->
             Cardinality(UNION {sum_pairs[i].mito_start..(sum_pairs[i].mito_end - 1) :
                                  i \in {j \in I : sum_pairs[j].mito_contig = c}})])

\* C13: a locus called Likely_NUMT contributes its nuclear interval to
\* nuclear_bp_numt and its mitochondrial interval to
\* mito_bp_covered_by_numt_homologs; a locus called Likely_NIMT contributes
\* its mitochondrial interval to mito_bp_nimt and its nuclear interval to
\* nuc_bp_covered_by_nimt_homologs; a locus called Ambiguous, called by any
\* other string or absent from the call map contributes to none of the four
\* and to neither n_numt nor n_nimt.
C13_ContributionsByCall ==
    (pc = "summary_done" /\ ret.tag = "Ok") =>
        /\ ret.val.n_pairs = Len(sum_pairs)
        /\ ret.val.n_numt = Cardinality(LociCalled("Likely_NUMT"))
        /\ ret.val.n_nimt = Cardinality(LociCalled("Likely_NIMT"))
        /\ ret.val.nuclear_bp_numt = NucBp(LociCalled("Likely_NUMT"))
        /\ ret.val.mito_bp_covered_by_numt_homologs = MitoBp(LociCalled("Likely_NUMT"))
        /\ ret.val.mito_bp_nimt = MitoBp(LociCalled("Likely_NIMT"))
        /\ ret.val.nuc_bp_covered_by_nimt_homologs = NucBp(LociCalled("Likely_NIMT"))

\* C13 witness: a NUMT and a locus called by an unknown string; only the
\* first is counted
C13_Witness ==
    /\ pc = "summary_done"
    /\ ret.tag = "Ok"
    /\ Len(sum_pairs) = 2
    /\ calls = [id \in {PairId(0), PairId(1)} |->
                  IF id = PairId(0) THEN "Likely_NUMT" ELSE "likely_numt"]
    /\ sum_pairs[1].nuc_end - sum_pairs[1].nuc_start = 2
    /\ sum_pairs[2].nuc_contig = "chr2"
    /\ ret.val.n_numt = 1
    /\ ret.val.nuclear_bp_numt = 2
    /\ ret.val.nuc_bp_covered_by_nimt_homologs = 0

\* C13 second witness: a NIMT and a locus without an entry in the call map
C13_NimtAndMissingReached ==
    /\ pc = "summary_done"
    /\ ret.tag = "Ok"
    /\ Len(sum_pairs) = 2
    /\ DOMAIN calls = {PairId(1)}
    /\ calls[PairId(1)] = "Likely_NIMT"
    /\ ret.val.n_nimt = 1
    /\ ret.val.n_numt = 0
    /\ ret.val.mito_bp_nimt > 0
    /\ ret.val.nuc_bp_covered_by_nimt_homologs > 0

\* the four percentages of a Summary, each with its union length and its total
Percentages(s) ==
    {<<s.nuclear_pct_numt, s.nuclear_bp_numt, s.nuclear_bp_total>>,
     <<s.mito_pct_nimt, s.mito_bp_nimt, s.mito_bp_total>>,
     <<s.mito_pct_covered_by_numt_homologs, s.mito_bp_covered_by_numt_homologs, s.mito_bp_total>>,
     <<s.nuc_pct_covered_by_nimt_homologs, s.nuc_bp_covered_by_nimt_homologs, s.nuclear_bp_total>>}

\* C14: every percentage of the Summary is in [0,100], whatever the loci, the
\* call map and the two total lengths are, and is 0 when its union length is 0.
C14_PercentagesInRange ==
    (pc = "summary_done" /\ ret.tag = "Ok") =>
        \A x \in Percentages(ret.val) :
            /\ 0 <= x[1] /\ x[1] <= 100 * ONE
            /\ x[2] = 0 => x[1] = 0

\* C14: the state that refutes it, a NUMT locus on a contig that the nuclear
\* assembly is shorter than
C14_OverHundredReached ==
    /\ pc = "summary_done"
    /\ ret.tag = "Ok"
    /\ ret.val.nuclear_bp_total = 2
    /\ ret.val.nuclear_bp_numt = 3
    /\ ret.val.nuclear_pct_numt = 150 * ONE

-----------------------------------------------------------------------------
(* io/bam.rs: compute_coverage_and_spans_with_tools and its median.        *)
(* Depths and span fractions are in thousandths; the depth samples are     *)
(* even, so that the mean of two of them is exact.                          *)

\* most loci handed to the estimator
MaxEstPairs == 3

\* the vector left in the order of the loci
SortF32LeaveOrder(v) == v

\* v.sort_by(|a, b| a.partial_cmp(b).unwrap())
SortF32(v) ==
    LET n == Len(v)
        rank(i) == Cardinality({j \in 1..n : v[j] < v[i] \/ (v[j] = v[i] /\ j < i)}) + 1
    IN [r \in 1..n |-> v[CHOOSE i \in 1..n : rank(i) = r]]

\* the median of the distinct values of v
medianOfDistinct(v) ==
    LET D == {v[i] : i \in 1..Len(v)}
        m == Cardinality(D)
        s == [r \in 1..m |-> CHOOSE x \in D : Cardinality({y \in D : y < x}) = r - 1]
    IN IF m = 0 THEN 0
       ELSE IF m % 2 = 1 THEN s[m \div 2 + 1]
       ELSE (s[m \div 2] + s[m \div 2 + 1]) \div 2

\* fn median(v: &mut [f32]) -> f64
median(v) ==
    IF v = <<>> THEN 0
    ELSE LET s == SortF32(v)
             m == Len(s)
         IN IF m % 2 = 1
            THEN s[m \div 2 + 1]
            ELSE (s[m \div 2] + s[m \div 2 + 1]) \div 2

\* what a region query returns
QueryErr == [tag |-> "Err", kind |-> "samtools"]

QueryOk(x) == [tag |-> "Ok", val |-> x]

\* the answers of avg_depth_for_region_path_with_samtools on the two BAMs
NucDepthResults == {QueryErr, QueryOk(1000), QueryOk(2000), QueryOk(3000)}

MitoDepthResults == {QueryErr, QueryOk(0), QueryOk(4000)}

\* the answers of span_fraction_for_region_path_with_samtools on the two BAMs
NucSpanResults == {QueryErr, QueryOk(500)}

MitoSpanResults == {QueryErr, QueryOk(ONE)}

\* the four queries of one loop iteration in their order
QueryNames == <<"d_nuc", "d_mito", "s_nuc", "s_mito">>

\* the first query that failed, 0 if none did
FirstFailed(qq) ==
    IF \E i \in 1..4 : qq[QueryNames[i]].tag = "Err"
    THEN CHOOSE i \in 1..4 :
            /\ qq[QueryNames[i]].tag = "Err"
            /\ \A j \in 1..(i - 1) : qq[QueryNames[j]].tag # "Err"
    ELSE 0

\* the outcomes of the four queries of one loop iteration: `?` returns at
\* the first failure, the queries after it are not made
QueryOutcomes ==
    {qq \in [d_nuc : NucDepthResults, d_mito : MitoDepthResults \cup {NoValue},
             s_nuc : NucSpanResults \cup {NoValue}, s_mito : MitoSpanResults \cup {NoValue}] :
        \A i \in 2..4 :
            (qq[QueryNames[i]] = NoValue) <=>
                (\E j \in 1..(i - 1) : qq[QueryNames[j]] = NoValue \/ qq[QueryNames[j]].tag = "Err")}

\* map.insert(key, value)
Insert(map, key, value) ==
    [x \in DOMAIN map \cup {key} |-> IF x = key THEN value ELSE map[x]]

\* the loci of the estimator: pair ids P000001.. in order
EstPairLists == {[i \in 1..n |-> [pair_id |-> PairId(i - 1)]] : n \in 0..MaxEstPairs}

InitEstimator ==
    /\ pc = "est_loop"
    /\ est_pairs \in EstPairLists
    /\ ei = 0
    /\ q = NoValue
    /\ per_pair = <<>>
    /\ per_span = <<>>
    /\ nuc_locals = <<>>
    /\ mito_locals = <<>>
    /\ ret = NoValue
    /\ IdleCore
    /\ IdleUnion
    /\ IdleSummary
    /\ IdlePipeline

\* one iteration of `for (i, p) in pairs.iter().enumerate()`
EstimatorStep ==
    /\ pc = "est_loop"
    /\ ei < Len(est_pairs)
    /\ \E qq \in QueryOutcomes :
         /\ q' = qq
         /\ IF FirstFailed(qq) # 0
            THEN /\ pc' = "est_done"
                 /\ ret' = qq[QueryNames[FirstFailed(qq)]]
                 /\ UNCHANGED <<ei, per_pair, per_span, nuc_locals, mito_locals>>
            ELSE /\ per_pair' = Insert(per_pair, est_pairs[ei + 1].pair_id,
                                       <<qq.d_nuc.val, qq.d_mito.val>>)
                 /\ per_span' = Insert(per_span, est_pairs[ei + 1].pair_id,
                                       <<qq.s_nuc.val, qq.s_mito.val>>)
                 /\ nuc_locals' = Append(nuc_locals, qq.d_nuc.val)
                 /\ mito_locals' = Append(mito_locals, qq.d_mito.val)
                 /\ ei' = ei + 1
                 /\ UNCHANGED <<pc, ret>>
    /\ UNCHANGED <<est_pairs, coreVars, unionVars, summaryVars, pipelineVars>>

\* the two medians and Ok((cov, spans))
EstimatorReturn ==
    /\ pc = "est_loop"
    /\ ei = Len(est_pairs)
    /\ pc' = "est_done"
    /\ ret' = [tag |-> "Ok",
               cov |-> [nuclear_median |-> median(nuc_locals),
                        mito_median |-> median(mito_locals),
                        per_pair |-> per_pair],
               spans |-> [per_pair |-> per_span]]
    /\ UNCHANGED <<estimatorVars, coreVars, unionVars, summaryVars, pipelineVars>>

NextEstimator == EstimatorStep \/ EstimatorReturn

SpecEstimator == InitEstimator /\ [][NextEstimator]_vars

(* Claims about the median *)

\* the r-th smallest value of v, by counting
OrderStat(v, r) ==
    CHOOSE x \in {v[i] : i \in 1..Len(v)} :
        /\ Cardinality({i \in 1..Len(v) : v[i] < x}) < r
        /\ Cardinality({i \in 1..Len(v) : v[i] <= x}) >= r

\* the standard median of v, doubled
TwiceStandardMedian(v) ==
    IF Len(v) = 0 THEN 0
    ELSE IF Len(v) % 2 = 1 THEN 2 * OrderStat(v, (Len(v) + 1) \div 2)
    ELSE OrderStat(v, Len(v) \div 2) + OrderStat(v, Len(v) \div 2 + 1)

\* C20: the median is 0.0 for an empty sequence, the value for a single
\* value, the middle element of the sorted sequence for odd length (2 for
\* [1,2,3]), the mean of the two middle elements for even length (1.5 for
\* [1,2]), and does not depend on the order of the values; the medians the
\* estimator returns are the medians of the local depths it has collected.
C20_MedianLaw ==
    pc \in {"est_loop", "est_done"} =>
        /\ \A v \in {nuc_locals, mito_locals} :
              /\ 2 * median(v) = TwiceStandardMedian(v)
              /\ Len(v) = 0 => median(v) = 0
              /\ Len(v) = 1 => median(v) = v[1]
              /\ \A p \in Perms(v) : median(p) = median(v)
        /\ (pc = "est_done" /\ ret.tag = "Ok") =>
              /\ 2 * ret.cov.nuclear_median = TwiceStandardMedian(nuc_locals)
              /\ 2 * ret.cov.mito_median = TwiceStandardMedian(mito_locals)

\* C20 witness: the depths 3, 1, 2 in this order have the median 2
C20_Witness ==
    /\ pc = "est_done"
    /\ ret.tag = "Ok"
    /\ nuc_locals = <<3 * ONE, ONE, 2 * ONE>>
    /\ ret.cov.nuclear_median = 2 * ONE

\* C20 second witness: the depths 2, 1 have the median 1.5
C20_EvenReached ==
    /\ pc = "est_done"
    /\ ret.tag = "Ok"
    /\ nuc_locals = <<2 * ONE, ONE>>
    /\ ret.cov.nuclear_median = 1500

\* C20 third witness: no locus, both medians are 0.0
C20_EmptyReached ==
    /\ pc = "est_done"
    /\ ret.tag = "Ok"
    /\ est_pairs = <<>>
    /\ ret.cov.nuclear_median = 0
    /\ ret.cov.mito_median = 0

\* the local depths of the loci in input order, read from the per-pair map
LocalsOf(side) == [i \in 1..Len(est_pairs) |-> ret.cov.per_pair[est_pairs[i].pair_id][side]]

\* C24: a successful run returns as nuclear_median (mito_median) the median
\* of the local nuclear (mito) depths of all loci, one value per locus, and
\* nothing is returned before the local values of every locus have been
\* collected; with no loci both medians are 0.
C24_MediansAfterAllLoci ==
    /\ pc = "est_loop" => ret = NoValue
    /\ (pc = "est_done" /\ ret.tag = "Ok") =>
          /\ ei = Len(est_pairs)
          /\ Len(nuc_locals) = Len(est_pairs) /\ Len(mito_locals) = Len(est_pairs)
          /\ nuc_locals = LocalsOf(1) /\ mito_locals = LocalsOf(2)
          /\ 2 * ret.cov.nuclear_median = TwiceStandardMedian(LocalsOf(1))
          /\ 2 * ret.cov.mito_median = TwiceStandardMedian(LocalsOf(2))
          /\ est_pairs = <<>> => ret.cov.nuclear_median = 0 /\ ret.cov.mito_median = 0

\* C24 witness: three loci, two of them with the same nuclear depth
C24_Witness ==
    /\ pc = "est_done"
    /\ ret.tag = "Ok"
    /\ Len(est_pairs) = 3
    /\ nuc_locals = <<ONE, 3 * ONE, ONE>>
    /\ ret.cov.nuclear_median = ONE
    /\ mito_locals = <<0, 4 * ONE, 4 * ONE>>
    /\ ret.cov.mito_median = 4 * ONE

-----------------------------------------------------------------------------
(* subcommands/classify.rs, subcommands/reuse.rs: the stages of run().     *)
(* A stage is a call of run(); all but the estimator are modelled by their *)
(* outcome only.                                                           *)

\* a stage: its name, whether it can return an error, the file of the
\* output directory it writes ("" if none)
St(name, fallible, f) == [name |-> name, fallible |-> fallible, file |-> f]

\* classify with pairs.tsv written before the loci are scored
ClassifyStagesWriteEarly(c) ==
    <<St("preflight", TRUE, ""),
      St("run_manifest", TRUE, "run_manifest.json"),
      St("resolve_bins", TRUE, ""),
      St("map_asm_to_asm", TRUE, ""),
      St("map_reads_to_ref", TRUE, ""),
      St("read_paf_m2n", TRUE, ""),
      St("read_paf_n2m", TRUE, ""),
      St("pair_and_merge", FALSE, ""),
      St("write_pairs_tsv", TRUE, "pairs.tsv"),
      St("estimator", TRUE, ""),
      St("classify_pairs", FALSE, ""),
      St("write_classification_tsv", TRUE, "classification.tsv"),
      St("parse_calls_tsv", FALSE, ""),
      St("compute_percentages", TRUE, ""),
      St("write_summary_tsv", TRUE, "summary.tsv")>>

\* CmdClassify::run
ClassifyStages(c) ==
    <<St("preflight", TRUE, ""),
      St("run_manifest", TRUE, "run_manifest.json"),
      St("resolve_bins", TRUE, ""),
      St("map_asm_to_asm", TRUE, ""),
      St("map_reads_to_ref", TRUE, ""),
      St("read_paf_m2n", TRUE, ""),
      St("read_paf_n2m", TRUE, ""),
      St("pair_and_merge", FALSE, ""),
      St("estimator", TRUE, ""),
      St("embedding", TRUE, ""),
      St("classify_pairs", FALSE, ""),
      St("write_pairs_tsv", TRUE, "pairs.tsv"),
      St("write_classification_tsv", TRUE, "classification.tsv"),
      St("write_coverage_json", TRUE, "coverage.json")>>
    \o (IF c.keep_tmp THEN <<>> ELSE <<St("cleanup", FALSE, "")>>)
    \o <<St("parse_calls_tsv", FALSE, ""),
         St("compute_percentages", TRUE, ""),
         St("write_summary_tsv", TRUE, "summary.tsv")>>

\* CmdReuse::run
ReuseStages(c) ==
    <<St("create_dir_all", TRUE, ""),
      St("which_samtools", TRUE, ""),
      St("read_paf_m2n", TRUE, ""),
      St("read_paf_n2m", TRUE, ""),
      St("pair_and_merge", FALSE, "")>>
    \o (IF c.allow_organelle_in_nuclear THEN <<>>
        ELSE <<St("contig_lengths", TRUE, "")>>
             \o (IF c.flagged
                 THEN <<St("write_excluded", TRUE, "excluded_organelle_like_nuclear_contigs.txt")>>
                 ELSE <<>>))
    \o <<St("estimator", TRUE, ""),
         St("classify_pairs", FALSE, ""),
         St("write_pairs_tsv", TRUE, "pairs.tsv"),
         St("write_classification_tsv", TRUE, "classification.tsv"),
         St("parse_calls_tsv", FALSE, ""),
         St("compute_percentages", TRUE, ""),
         St("write_summary_tsv", TRUE, "summary.tsv")>>

Stages(c) == IF c.name = "classify" THEN ClassifyStages(c) ELSE ReuseStages(c)

\* the subcommand, its flags, and whether the hits flag a nuclear contig
Commands ==
    {[name |-> "classify", keep_tmp |-> kt, allow_organelle_in_nuclear |-> FALSE,
      flagged |-> FALSE] : kt \in BOOLEAN}
    \cup {c \in [name : {"reuse"}, keep_tmp : {FALSE},
                 allow_organelle_in_nuclear : BOOLEAN, flagged : BOOLEAN] :
            c.allow_organelle_in_nuclear => ~c.flagged}

\* what a stage returns
StageOk == [tag |-> "Ok"]

Outcomes(s) == {StageOk} \cup (IF s.fallible THEN {[tag |-> "Err", kind |-> s.name]} ELSE {})

\* run() goes on after every result
TryIgnoringErr(r) == TRUE

\* the ? operator: run() goes on after Ok and returns the error otherwise
Try(r) == r.tag = "Ok"

\* fs::write: the file is there after Ok, and may be there after an error
AfterWrite(files, s, r) ==
    IF s.file = "" THEN {files}
    ELSE IF r.tag = "Ok" THEN {files \cup {s.file}}
    ELSE {files, files \cup {s.file}}

InitPipeline ==
    /\ pc = "run"
    /\ cmd \in Commands
    /\ stage = 0
    /\ ran = <<>>
    /\ written = {}
    /\ ret = NoValue
    /\ IdleCore
    /\ IdleUnion
    /\ IdleSummary
    /\ IdleEstimator

\* a stage other than the pairer and the estimator
PipelineStage ==
    /\ pc = "run"
    /\ stage < Len(Stages(cmd))
    /\ LET s == Stages(cmd)[stage + 1]
       IN /\ s.name \notin {"pair_and_merge", "estimator"}
          /\ \E r \in Outcomes(s) :
               /\ ran' = Append(ran, [name |-> s.name, ok |-> r.tag = "Ok"])
               /\ written' \in AfterWrite(written, s, r)
               /\ IF Try(r)
                  THEN stage' = stage + 1 /\ UNCHANGED <<pc, ret>>
                  ELSE pc' = "run_done" /\ ret' = r /\ UNCHANGED stage
    /\ UNCHANGED <<cmd, coreVars, unionVars, summaryVars, estimatorVars>>

\* paf::pair_and_merge(..)? hands the loci to the estimator
PipelinePairAndMerge ==
    /\ pc = "run"
    /\ stage < Len(Stages(cmd))
    /\ Stages(cmd)[stage + 1].name = "pair_and_merge"
    /\ est_pairs' \in EstPairLists
    /\ ran' = Append(ran, [name |-> "pair_and_merge", ok |-> TRUE])
    /\ stage' = stage + 1
    /\ UNCHANGED <<pc, cmd, written, ret, ei, q, per_pair, per_span, nuc_locals,
                   mito_locals, coreVars, unionVars, summaryVars>>

\* bam::compute_coverage_and_spans_with_tools(..) is entered
PipelineEstimatorCall ==
    /\ pc = "run"
    /\ stage < Len(Stages(cmd))
    /\ Stages(cmd)[stage + 1].name = "estimator"
    /\ pc' = "est_loop"
    /\ ei' = 0
    /\ q' = NoValue
    /\ per_pair' = <<>>
    /\ per_span' = <<>>
    /\ nuc_locals' = <<>>
    /\ mito_locals' = <<>>
    /\ UNCHANGED <<est_pairs, ret, pipelineVars, coreVars, unionVars, summaryVars>>

\* the ? on what the estimator returned
PipelineEstimatorBack ==
    /\ pc = "est_done"
    /\ cmd # NoValue
    /\ ran' = Append(ran, [name |-> "estimator", ok |-> ret.tag = "Ok"])
    /\ IF Try(ret)
       THEN pc' = "run" /\ stage' = stage + 1 /\ ret' = NoValue
       ELSE pc' = "run_done" /\ UNCHANGED <<stage, ret>>
    /\ UNCHANGED <<cmd, written, estimatorVars, coreVars, unionVars, summaryVars>>

\* Ok(())
PipelineReturn ==
    /\ pc = "run"
    /\ stage = Len(Stages(cmd))
    /\ pc' = "run_done"
    /\ ret' = StageOk
    /\ UNCHANGED <<pipelineVars, estimatorVars, coreVars, unionVars, summaryVars>>

NextPipeline ==
    \/ PipelineStage
    \/ PipelinePairAndMerge
    \/ PipelineEstimatorCall
    \/ EstimatorStep
    \/ EstimatorReturn
    \/ PipelineEstimatorBack
    \/ PipelineReturn

SpecPipeline == InitPipeline /\ [][NextPipeline]_vars


(* Claims about the failure of a run *)

\* the reader, the pairer and the estimator
UpstreamStages == {"read_paf_m2n", "read_paf_n2m", "pair_and_merge", "estimator"}

\* scoring, the writing of the two tables, summarization
DownstreamStages ==
    {"classify_pairs", "write_pairs_tsv", "write_classification_tsv",
     "compute_percentages", "write_summary_tsv"}

ResultFiles == {"pairs.tsv", "classification.tsv", "summary.tsv"}

\* the stage has completed with Ok
Succeeded(name) == \E i \in 1..Len(ran) : ran[i].name = name /\ ran[i].ok

\* a region query of the last loop iteration has failed
QueryFailed == q # NoValue /\ FirstFailed(q) # 0

\* C16: when a region query fails for a locus, the estimator returns the
\* error and neither a CoverageSummary nor a SpanSummary, the per-pair values
\* collected so far are not returned; and after a failure of the reader, the
\* pairer or the estimator no later stage of classify or reuse runs: no
\* scoring, no writing of pairs.tsv or classification.tsv, no summarization.
C16_FailureStopsRun ==
    cmd # NoValue =>
        /\ QueryFailed =>
              /\ pc \in {"est_done", "run_done"}
              /\ ret = QueryErr
              /\ DOMAIN ret = {"tag", "kind"}
              /\ ei < Len(est_pairs)
              /\ est_pairs[ei + 1].pair_id \notin DOMAIN per_pair
        /\ (pc = "est_done" /\ ret.tag = "Ok") =>
              /\ ~QueryFailed
              /\ DOMAIN ret.cov.per_pair = {est_pairs[i].pair_id : i \in 1..Len(est_pairs)}
              /\ DOMAIN ret.spans.per_pair = {est_pairs[i].pair_id : i \in 1..Len(est_pairs)}
        /\ \A i \in 1..Len(ran) :
              (ran[i].name \in UpstreamStages /\ ~ran[i].ok) =>
                  /\ i = Len(ran)
                  /\ pc = "run_done"
                  /\ ret.tag = "Err"
                  /\ \A j \in 1..Len(ran) : ran[j].name \notin DownstreamStages
                  /\ written \cap ResultFiles = {}

\* C16 witness: the second locus of a run fails its third query after the
\* first locus has been measured; the run has returned the error
C16_Witness ==
    /\ pc = "run_done"
    /\ ret = QueryErr
    /\ ran[Len(ran)] = [name |-> "estimator", ok |-> FALSE]
    /\ Len(est_pairs) = 2
    /\ ei = 1
    /\ DOMAIN per_pair = {PairId(0)}
    /\ q.s_nuc = QueryErr
    /\ q.s_mito = NoValue

\* C16 second witness: the reader fails and the run has returned
C16_ReaderFailureReached ==
    /\ pc = "run_done"
    /\ ret.tag = "Err"
    /\ ran[Len(ran)] = [name |-> "read_paf_n2m", ok |-> FALSE]

\* C17 as claimed: a run that has failed has written no result file.
C17_NoResultFileAfterFailure ==
    (cmd # NoValue /\ pc = "run_done" /\ ret.tag = "Err") => written \cap ResultFiles = {}

\* C17: pairs.tsv and classification.tsv are written, wholly or partly, only
\* after the reader, the pairer, the estimator and scoring have succeeded,
\* and summary.tsv only after these two have been written and summarization
\* has succeeded; a run that returns Ok has written all three.  A run that
\* fails after scoring leaves the files written so far.
C17_ResultFilesAfterTheirStages ==
    cmd # NoValue =>
        /\ written \cap {"pairs.tsv", "classification.tsv"} # {} =>
              /\ \A n \in UpstreamStages : Succeeded(n)
              /\ Succeeded("classify_pairs")
        /\ "classification.tsv" \in written => Succeeded("write_pairs_tsv")
        /\ "summary.tsv" \in written =>
              /\ Succeeded("write_pairs_tsv")
              /\ Succeeded("write_classification_tsv")
              /\ Succeeded("compute_percentages")
        /\ (pc = "run_done" /\ ret.tag = "Ok") =>
              /\ ResultFiles \subseteq written
              /\ \A i \in 1..Len(ran) : ran[i].ok

\* C17 witness: summarization fails in classify; pairs.tsv and
\* classification.tsv stay written, summary.tsv is not
C17_Witness ==
    /\ pc = "run_done"
    /\ ret.tag = "Err"
    /\ cmd.name = "classify"
    /\ ran[Len(ran)] = [name |-> "compute_percentages", ok |-> FALSE]
    /\ written \cap ResultFiles = {"pairs.tsv", "classification.tsv"}

\* C17 second witness: the same in reuse
C17_ReuseReached ==
    /\ pc = "run_done"
    /\ ret.tag = "Err"
    /\ cmd.name = "reuse"
    /\ ran[Len(ran)] = [name |-> "compute_percentages", ok |-> FALSE]
    /\ written \cap ResultFiles = {"pairs.tsv", "classification.tsv"}

-----------------------------------------------------------------------------
(* io/bam.rs: the two region queries of one locus side, as the loop body of *)
(* compute_coverage_and_spans_with_tools issues them.  Coordinates are      *)
(* exact integers; a depth or a fraction is in thousandths, truncated.      *)

\* the longest BAM file of the model, in records
MaxReads == 2

\* const SPAN_CAP_BP: i32 = 20_000
SPAN_CAP_BP == 20000

\* const MIN_MAPQ: u8 = 20
MIN_MAPQ == 20

\* const MIN_FRAC: f32 = 0.80, in thousandths
MIN_FRAC == 800

\* the MAPQ byte for which record.mapping_quality() is None
MAPQ_MISSING == 255

\* the CIGAR kinds the ref_len loops add up
ConsumesRef == {"M", "=", "X", "D", "N"}

\* let contributes = matches!(op.kind(), Match | SequenceMatch | SequenceMismatch)
Contributes == {"M", "=", "X"}

Op(kind, len) == [kind |-> kind, len |-> len]

\* a record of a BAM file: flags().is_unmapped(), the MAPQ byte,
\* alignment_start() (1-based, 0 when None) and cigar()
Rec(unmapped, mapq, start, cigar) ==
    [unmapped |-> unmapped, mapq |-> mapq, alignment_start |-> start, cigar |-> cigar]

\* whether record.alignment_start() is Some(Ok(p))
HasStart(record) == record.alignment_start > 0

\* the first ref_len loop of either query
RefLen(cigar) ==
    LET s[i \in 0..Len(cigar)] ==
            IF i = 0 THEN 0
            ELSE s[i - 1] + (IF cigar[i].kind \in ConsumesRef THEN cigar[i].len ELSE 0)
    IN s[Len(cigar)]

\* (usize::from(p) as i32 - 1).max(0)
RecStart0(record) == Max2(record.alignment_start - 1, 0)

\* Window { start: p.nuc_start as i32 - flank as i32, end: p.nuc_end as i32 + flank as i32 }
NucWindow(nuc_start, nuc_end, flank) ==
    [start |-> nuc_start - flank, end |-> nuc_end + flank]

\* mid, half and span_w of span_fraction_for_region_path_with_samtools;
\* window.start + window.end is never negative, so / and \div agree
SpanWindow(win, span_cap_bp) ==
    LET mid == (win.start + win.end) \div 2
        half == Max2(span_cap_bp \div 2, 1)
    IN [start |-> Max2(mid - half, 0), end |-> mid + half]

\* the windows of one locus side in a run of the estimator with these
\* arguments: _win_bp is not read, the span queries get SPAN_CAP_BP
EstimatorWindows(nuc_start, nuc_end, flank, win_bp) ==
    LET nuc_w == NucWindow(nuc_start, nuc_end, flank)
    IN [window |-> nuc_w, span_w |-> SpanWindow(nuc_w, SPAN_CAP_BP)]

\* samtools view -b bam rname:s1-e1: the placed records that overlap the
\* 1-based closed region, a record without reference length counting as one base
Fetch(records, win) ==
    LET s1 == Max2(win.start, 0) + 1
        e1 == Max2(win.end, 1)
        hit(r) == /\ HasStart(r)
                  /\ r.alignment_start <= e1
                  /\ r.alignment_start + Max2(RefLen(r.cigar), 1) - 1 >= s1
    IN SelectSeq(records, hit)

\* what one iteration of the records loop of avg_depth_.. adds to covered
CoveredBy(record, win) ==
    IF record.unmapped \/ ~HasStart(record) THEN 0
    ELSE LET rec_start0 == RecStart0(record)
             ref_len == RefLen(record.cigar)
             rec_end0 == rec_start0 + ref_len
             ov_start == Max2(rec_start0, win.start)
             ov_end == Min2(rec_end0, win.end)
             cg == record.cigar
             consumes(i) == cg[i].kind \in ConsumesRef
             ref_pos[i \in 0..Len(cg)] ==
                 IF i = 0 THEN rec_start0
                 ELSE ref_pos[i - 1] + (IF consumes(i) THEN cg[i].len ELSE 0)
             seg(i) ==
                 LET s == Max2(ref_pos[i - 1], ov_start)
                     e == Min2(ref_pos[i - 1] + cg[i].len, ov_end)
                 IN IF consumes(i) /\ cg[i].kind \in Contributes /\ e > s THEN e - s ELSE 0
             acc[i \in 0..Len(cg)] == IF i = 0 THEN 0 ELSE acc[i - 1] + seg(i)
         IN IF ref_len <= 0 \/ ov_end <= ov_start THEN 0 ELSE acc[Len(cg)]

\* Ok((covered as f32) / (win_len as f32))
AvgDepth(cov, win) == (ONE * cov) \div Max2(win.end - win.start, 1)

\* whether the records loop of span_fraction_.. reaches total += 1.0
Qualifies(record) ==
    /\ ~record.unmapped
    /\ ~(record.mapq # MAPQ_MISSING /\ record.mapq < MIN_MAPQ)
    /\ HasStart(record)
    /\ RefLen(record.cigar) > 0

\* overlap of the record with the capped window
Overlap(record, sw) ==
    LET rec_start0 == RecStart0(record)
        rec_end0 == rec_start0 + RefLen(record.cigar)
    IN Max2(Min2(rec_end0, sw.end) - Max2(rec_start0, sw.start), 0)

\* the span test with a strict comparison
SpansStrictly(record, sw) ==
    ONE * Overlap(record, sw) > MIN_FRAC * Max2(sw.end - sw.start, 1)

\* overlap / win_len >= MIN_FRAC
Spans(record, sw) ==
    ONE * Overlap(record, sw) >= MIN_FRAC * Max2(sw.end - sw.start, 1)

\* Ok(if total == 0.0 { 0.0 } else { spans / total })
SpanFraction(n_spans, n_total) ==
    IF n_total = 0 THEN 0 ELSE (ONE * n_spans) \div n_total

\* ---- inputs ----

\* the records a BAM file of the model is made of
ReadKinds ==
    { Rec(FALSE, 60, 1, <<Op("M", 3)>>),
      Rec(FALSE, 60, 3, <<Op("M", 2), Op("D", 1), Op("I", 1), Op("=", 2)>>),
      Rec(FALSE, 19, 2, <<Op("S", 1), Op("M", 4)>>),
      Rec(TRUE, 0, 2, <<Op("M", 3)>>),
      Rec(FALSE, 60, 2, <<>>),
      Rec(FALSE, 60, 1, <<Op("M", 9000)>>),
      Rec(FALSE, MAPQ_MISSING, 5001, <<Op("X", 8000), Op("N", 8000)>>),
      Rec(FALSE, 20, 5003, <<Op("M", 16000)>>),
      Rec(FALSE, 60, 15001, <<Op("M", 4)>>) }

BamFiles == UNION {[1..n -> ReadKinds] : n \in 0..MaxReads}

\* (nuc_start, nuc_end) of the locus
WindowLoci == {<<1, 4>>, <<3, 5>>, <<15000, 15004>>}

FlankVals == {1, 2}

WinVals == {250, 500}

\* whether the samtools view of the depth query and of the span query succeed
ViewOutcomes == {<<TRUE, TRUE>>, <<FALSE, TRUE>>, <<TRUE, FALSE>>}

InitWindow ==
    /\ pc = "depth_view"
    /\ bam \in BamFiles
    /\ \E iv \in WindowLoci, f \in FlankVals, wb \in WinVals, vo \in ViewOutcomes :
          wq = [nuc_start |-> iv[1], nuc_end |-> iv[2], flank |-> f, win_bp |-> wb,
                view_ok |-> vo]
    /\ window = NoValue
    /\ span_w = NoValue
    /\ recs = <<>>
    /\ rx = 0
    /\ covered = 0
    /\ total = 0
    /\ spans_cnt = 0
    /\ d_nuc = NoValue
    /\ ret = NoValue
    /\ IdleScoring /\ IdlePairer /\ IdleReader
    /\ IdleUnion /\ IdleSummary /\ IdleEstimator /\ IdlePipeline

otherVars == <<scoringVars, pairerVars, readerVars, unionVars, summaryVars,
               estimatorVars, pipelineVars>>

\* nuc_w is built and the depth query slices its region
DepthView ==
    /\ pc = "depth_view"
    /\ LET ww == EstimatorWindows(wq.nuc_start, wq.nuc_end, wq.flank, wq.win_bp)
       IN /\ window' = ww.window
          /\ IF wq.view_ok[1]
             THEN /\ recs' = Fetch(bam, ww.window)
                  /\ pc' = "depth_loop"
                  /\ ret' = ret
             ELSE /\ recs' = recs
                  /\ pc' = "window_done"
                  /\ ret' = QueryErr
    /\ rx' = 0
    /\ covered' = 0
    /\ UNCHANGED <<bam, wq, span_w, total, spans_cnt, d_nuc, otherVars>>

\* one iteration of the records loop of the depth query
DepthStep ==
    /\ pc = "depth_loop"
    /\ rx < Len(recs)
    /\ covered' = covered + CoveredBy(recs[rx + 1], window)
    /\ rx' = rx + 1
    /\ UNCHANGED <<pc, bam, wq, window, span_w, recs, total, spans_cnt, d_nuc, ret,
                   otherVars>>

\* the depth query returns
DepthReturn ==
    /\ pc = "depth_loop"
    /\ rx = Len(recs)
    /\ d_nuc' = QueryOk(AvgDepth(covered, window))
    /\ pc' = "span_view"
    /\ UNCHANGED <<bam, wq, window, span_w, recs, rx, covered, total, spans_cnt, ret,
                   otherVars>>

\* the span query builds span_w and slices its region
SpanView ==
    /\ pc = "span_view"
    /\ LET ww == EstimatorWindows(wq.nuc_start, wq.nuc_end, wq.flank, wq.win_bp)
       IN /\ span_w' = ww.span_w
          /\ IF wq.view_ok[2]
             THEN /\ recs' = Fetch(bam, ww.span_w)
                  /\ pc' = "span_loop"
                  /\ ret' = ret
             ELSE /\ recs' = recs
                  /\ pc' = "window_done"
                  /\ ret' = QueryErr
    /\ rx' = 0
    /\ total' = 0
    /\ spans_cnt' = 0
    /\ UNCHANGED <<bam, wq, window, covered, d_nuc, otherVars>>

\* one iteration of the records loop of the span query
SpanStep ==
    /\ pc = "span_loop"
    /\ rx < Len(recs)
    /\ LET record == recs[rx + 1]
       IN IF Qualifies(record)
          THEN /\ total' = total + 1
               /\ spans_cnt' = spans_cnt + (IF Spans(record, span_w) THEN 1 ELSE 0)
          ELSE UNCHANGED <<total, spans_cnt>>
    /\ rx' = rx + 1
    /\ UNCHANGED <<pc, bam, wq, window, span_w, recs, covered, d_nuc, ret, otherVars>>

\* the span query returns
SpanReturn ==
    /\ pc = "span_loop"
    /\ rx = Len(recs)
    /\ ret' = QueryOk(SpanFraction(spans_cnt, total))
    /\ pc' = "window_done"
    /\ UNCHANGED <<windowVars, otherVars>>

NextWindow ==
    \/ DepthView
    \/ DepthStep
    \/ DepthReturn
    \/ SpanView
    \/ SpanStep
    \/ SpanReturn

SpecWindow == InitWindow /\ [][NextWindow]_vars

TypeOKWindow ==
    /\ pc \in {"depth_view", "depth_loop", "span_view", "span_loop", "window_done"}
    /\ rx \in 0..Len(recs)
    /\ covered >= 0
    /\ spans_cnt <= total
    /\ total <= rx

-----------------------------------------------------------------------------
(* Claims on the region queries *)

\* whether an M, = or X operation of the record lies on the reference position
MatchedAt(record, pos) ==
    /\ ~record.unmapped
    /\ HasStart(record)
    /\ \E i \in 1..Len(record.cigar) :
          LET from == RecStart0(record) + RefLen(SubSeq(record.cigar, 1, i - 1))
          IN /\ record.cigar[i].kind \in {"M", "=", "X"}
             /\ pos >= from
             /\ pos < from + record.cigar[i].len

\* the read depth of the BAM file at a reference position
BaseDepth(pos) == Cardinality({i \in 1..Len(bam) : MatchedAt(bam[i], pos)})

\* the total read depth over the positions [from, to)
DepthSum(from, to) == SumOf([pos \in from..(to - 1) |-> BaseDepth(pos)])

DepthReturned == pc \in {"span_view", "span_loop", "window_done"} /\ d_nuc # NoValue

\* C21 as stated: the local depth is the median of the per-base read depth
\* over [mid - F, mid + F) around the midpoint of the locus interval, a
\* position without coverage counting as 0.
C21_LocalDepthIsWindowMedian ==
    DepthReturned =>
        LET mid == (wq.nuc_start + wq.nuc_end) \div 2
            from == mid - wq.flank
        IN d_nuc.val = median([i \in 1..(2 * wq.flank) |-> ONE * BaseDepth(from + i - 1)])

\* What the depth query returns: the mean read depth over the window
\* [start - F, end + F) of the locus interval, i.e. the number of window
\* bases under an M, = or X operation of a mapped record, summed over the
\* records, divided by the window length; 0 when no read covers a base of
\* the window.
LocalDepthIsWindowMean ==
    DepthReturned =>
        /\ window = [start |-> wq.nuc_start - wq.flank, end |-> wq.nuc_end + wq.flank]
        /\ d_nuc.val = (ONE * DepthSum(window.start, window.end))
                           \div (window.end - window.start)
        /\ (\A pos \in window.start..(window.end - 1) : BaseDepth(pos) = 0) => d_nuc.val = 0

\* a read with a deletion inside the window [2, 6): three of four bases covered
DeletionInWindowReached ==
    /\ pc = "span_view"
    /\ window = [start |-> 2, end |-> 6]
    /\ Len(recs) = 1
    /\ \E i \in 1..Len(recs[1].cigar) : recs[1].cigar[i].kind = "D"
    /\ d_nuc.val = 750

\* a window that starts left of the contig and has no covered base
UncoveredWindowReached ==
    /\ pc = "span_view"
    /\ window.start < 0
    /\ Len(bam) > 0
    /\ d_nuc.val = 0


SpanReturned == pc = "window_done" /\ ret.tag = "Ok"

\* the fetched records that are mapped and have MAPQ >= 20
MappedGoodMapq == {i \in 1..Len(recs) : ~recs[i].unmapped /\ recs[i].mapq >= MIN_MAPQ}

\* the extent [pos, pos + reflen) of a record on the reference
Extent(record) ==
    [start |-> RecStart0(record), end |-> RecStart0(record) + RefLen(record.cigar)]

\* whether the extent shares at least 80% of the window's length with it
CoversFourFifths(e, sw) ==
    LET lo == IF e.start > sw.start THEN e.start ELSE sw.start
        hi == IF e.end < sw.end THEN e.end ELSE sw.end
        shared == IF hi > lo THEN hi - lo ELSE 0
    IN 5 * shared >= 4 * (sw.end - sw.start)

\* spanning / qualifying in thousandths, 0 without a qualifying record
FractionOf(S, Q) == IF Q = {} THEN 0 ELSE (ONE * Cardinality(S)) \div Cardinality(Q)

\* C22 as stated: the qualifying records are exactly the fetched records
\* that are mapped and have MAPQ >= 20; a qualifying record spans iff it
\* shares at least 80% of the window's length with the window; the span
\* fraction is spanning / qualifying, 0 without a qualifying record.
C22_QualifyingAreMappedGoodMapq ==
    SpanReturned =>
        LET Q == MappedGoodMapq
            S == {i \in Q : CoversFourFifths(Extent(recs[i]), span_w)}
        IN /\ total = Cardinality(Q)
           /\ ret.val = FractionOf(S, Q)

\* C22, amended: the qualifying records are the fetched records that are
\* mapped, have MAPQ >= 20 (a missing MAPQ, the byte 255, included) and a
\* positive reference length; spanning and the fraction are as stated, and
\* the fraction lies in [0, 1].
C22_QualifyingHaveReferenceLength ==
    SpanReturned =>
        LET Q == {i \in MappedGoodMapq : RefLen(recs[i].cigar) > 0}
            S == {i \in Q : CoversFourFifths(Extent(recs[i]), span_w)}
        IN /\ total = Cardinality(Q)
           /\ spans_cnt = Cardinality(S)
           /\ ret.val = FractionOf(S, Q)
           /\ ret.val >= 0 /\ ret.val <= ONE
           /\ (Q = {} => ret.val = 0)

\* one record overlaps exactly 80% of the window [5002, 25002), one record
\* of low MAPQ is left out
C22_Witness ==
    /\ SpanReturned
    /\ span_w = [start |-> 5002, end |-> 25002]
    /\ \E i \in 1..Len(recs) : Overlap(recs[i], span_w) = 16000 /\ recs[i].mapq = MIN_MAPQ
    /\ total = 1
    /\ ret.val = ONE

\* a record of missing MAPQ qualifies and does not span: half of two span
C22_HalfReached ==
    /\ SpanReturned
    /\ Len(recs) = 2
    /\ \E i \in 1..2 : recs[i].mapq = MAPQ_MISSING
    /\ total = 2
    /\ ret.val = 500

\* no fetched record qualifies
C22_NoneQualifiesReached ==
    /\ SpanReturned
    /\ Len(recs) > 0
    /\ total = 0
    /\ ret.val = 0


\* C23: the span window is centred on the locus midpoint with the half-width
\* the caller supplied as W (below the cap), so a run that differs only in
\* W evaluates spanning against a window of another width.
C23_SpanWindowFollowsW ==
    (pc \in {"span_loop", "window_done"} /\ span_w # NoValue) =>
        LET mid == (window.start + window.end) \div 2
            width(sw) == sw.end - sw.start
        IN /\ 2 * wq.win_bp < SPAN_CAP_BP
           /\ span_w = [start |-> Max2(mid - wq.win_bp, 0), end |-> mid + wq.win_bp]
           /\ \A w2 \in WinVals \ {wq.win_bp} :
                 width(EstimatorWindows(wq.nuc_start, wq.nuc_end, wq.flank, w2).span_w)
                     # width(span_w)

-----------------------------------------------------------------------------
(* scoring.rs, classify_pairs in the arithmetic of the program: every f32  *)
(* is the integer n with value n / 2^30, every sum, difference, product    *)
(* and quotient is rounded to a 24-bit significand, ties to even, as       *)
(* IEEE-754 binary32 does.  The inputs are kept in the range where n is    *)
(* exact: magnitudes in [2^-6, 2) or values with no bit below 2^-30.       *)
(* depth_contrast is 0.0 for equal depth ratios (ln 1.0 = 0.0, tanh 0.0 =  *)
(* 0.0) and is drawn from two values of the right sign otherwise.          *)

\* 1.0f32
ONE32 == 2^30

\* the f32 nearest to the real number n + (a positive fraction if sticky)
F32RoundSticky(n, sticky) ==
    LET m == Abs(n)
    IN IF m < 2^24 THEN n
       ELSE LET p == CHOOSE e \in 24..30 : m \div (2^e) = 1
                unit == 2^(p - 23)
                r == m % unit
                down == m - r
                up == down + unit
                res == IF 2 * r < unit THEN down
                       ELSE IF 2 * r > unit \/ sticky THEN up
                       ELSE IF (down \div unit) % 2 = 0 THEN down
                       ELSE up
            IN IF n < 0 THEN -res ELSE res

\* the f32 nearest to n
F32Round(n) == F32RoundSticky(n, FALSE)

\* x + y and x - y
F32Add(x, y) == F32Round(x + y)

F32Sub(x, y) == F32Round(x - y)

\* x * y: the exact product by 15-bit limbs, then rounded
F32Mul(x, y) ==
    LET ax == Abs(x)
        ay == Abs(y)
        xh == ax \div (2^15)
        xl == ax % (2^15)
        yh == ay \div (2^15)
        yl == ay % (2^15)
        mid == xh * yl + xl * yh
        low == (mid % (2^15)) * (2^15) + xl * yl
        whole == xh * yh + mid \div (2^15) + low \div (2^30)
        res == F32RoundSticky(whole, low % (2^30) # 0)
    IN IF (x < 0) # (y < 0) THEN -res ELSE res

\* num as f32 / den as f32 for whole numbers 0 <= num < 2 * den: the
\* quotient by long division in two steps of 15 bits, then rounded
F32Quot(num, den) ==
    LET a == num * (2^15)
        b == (a % den) * (2^15)
    IN F32RoundSticky((a \div den) * (2^15) + b \div den, b % den # 0)

\* "{:.4}" of an f32: its value in ten-thousandths, rounded half to even
Fmt4F32(x) ==
    LET hi == (x \div (2^15)) * 10000
        low == (hi % (2^15)) * (2^15) + (x % (2^15)) * 10000
        whole == hi \div (2^15) + low \div (2^30)
        r == low % (2^30)
    IN IF r > 2^29 \/ (r = 2^29 /\ whole % 2 = 1) THEN whole + 1 ELSE whole

\* fn clamp01(x: f32) -> f32
clamp01F32(x) == IF x < 0 THEN 0 ELSE IF x > ONE32 THEN ONE32 ELSE x

\* fn scale_len(len_bp: u32) -> f32
scale_lenF32(len_bp) == clamp01F32(F32Quot(len_bp, len_bp + L50))

\* the values depth_contrast is drawn from
DepthContrastF32(rnuc, rmito) ==
    IF rnuc = rmito THEN {0}
    ELSE IF rnuc > rmito THEN {2^29, 2^30 - 2^10}
    ELSE {-(2^29), -(2^30 - 2^10)}

\* The body of the for loop of classify_pairs for locus p in f32, with
\* depth_contrast dc; local depths and medians are whole numbers
ScoreLocusF32(p, cov, sp, wt, prm, dc) ==
    LET dl == GetOrZero(cov.per_pair, p.pair_id)
        rnuc == IF cov.nuclear_median > 0 THEN F32Quot(dl[1], cov.nuclear_median) ELSE 0
        rmito == IF cov.mito_median > 0 THEN F32Quot(dl[2], cov.mito_median) ELSE 0
        d_numt == clamp01F32(F32Sub(ONE32, Abs(F32Sub(rnuc, ONE32))))
        d_nimt == clamp01F32(F32Sub(ONE32, Abs(F32Sub(rmito, ONE32))))
        sl == GetOrZero(sp.per_pair, p.pair_id)
        s_nuc == sl[1]
        s_mito == sl[2]
        span_contrast == F32Sub(s_nuc, s_mito)
        a == clamp01F32(p.aln_ident)
        l == scale_lenF32(p.aln_len)
        base == F32Add(F32Mul(wt.w_a, a), F32Mul(wt.w_l, l))
        pro_numt == F32Add(F32Mul(wt.w_d, d_numt), F32Mul(wt.w_s, s_nuc))
        pro_nimt == F32Add(F32Mul(wt.w_d, d_nimt), F32Mul(wt.w_s, s_mito))
        pen_numt == F32Add(F32Mul(wt.w_d, d_nimt), F32Mul(wt.w_s, s_mito))
        pen_nimt == F32Add(F32Mul(wt.w_d, d_numt), F32Mul(wt.w_s, s_nuc))
        boost_numt == F32Add(F32Mul(wt.w_d, dc), F32Mul(wt.w_s, span_contrast))
        boost_nimt == F32Sub(F32Mul(-wt.w_d, dc), F32Mul(wt.w_s, span_contrast))
        score_numt == F32Add(F32Sub(F32Add(base, pro_numt), pen_numt), boost_numt)
        score_nimt == F32Add(F32Sub(F32Add(base, pro_nimt), pen_nimt), boost_nimt)
        delta == Abs(F32Sub(score_numt, score_nimt))
        call == IF F32Sub(score_numt, score_nimt) >= prm.call_threshold THEN "NUMT"
                ELSE IF F32Sub(score_nimt, score_numt) >= prm.call_threshold THEN "NIMT"
                ELSE "Ambiguous"
    IN [pair_id |-> p.pair_id, a |-> a, l |-> l, rnuc |-> rnuc, rmito |-> rmito,
        d_numt |-> d_numt, d_nimt |-> d_nimt, s_nuc |-> s_nuc, s_mito |-> s_mito,
        depth_contrast |-> dc, span_contrast |-> span_contrast, base |-> base,
        score_numt |-> score_numt, score_nimt |-> score_nimt,
        delta |-> delta, call |-> call]

\* the row of classification.tsv, the confidence as "{:.4}" prints it
ClassRowF32(p, x) ==
    [pair_id |-> p.pair_id, call |-> CallStr(x.call)[1],
     confidence |-> Fmt4F32(x.delta), reason_codes |-> CallStr(x.call)[2]]

\* ---- inputs ----

\* identities matches / alnlen as the reader computes them
IdentitiesF32 == {F32Quot(90, 100), F32Quot(95, 100), F32Quot(98, 100), ONE32}

\* alignment lengths
LengthsF32 == {2000, 5000}

LociF32 ==
    {[MkLocus(0, 0, len) EXCEPT !.aln_ident = id] : id \in IdentitiesF32, len \in LengthsF32}

\* span fractions spans / total out of twenty qualifying records
SpanValsF32 == {F32Quot(n, 20) : n \in {0, 3, 10, 13, 20}}

\* whole-number local depths of the two sides, over medians of 100
DepthPairsF32 == {<<100, 100>>, <<50, 50>>, <<100, 33>>, <<33, 100>>}

\* the default weights, and weights that differ from them in w_a and w_l
WeightsF32 ==
    {[w_a |-> F32Quot(W_A, ONE), w_l |-> F32Quot(W_L, ONE),
      w_d |-> F32Quot(W_D, ONE), w_s |-> F32Quot(W_S, ONE)],
     [w_a |-> F32Quot(100, ONE), w_l |-> 0,
      w_d |-> F32Quot(W_D, ONE), w_s |-> F32Quot(W_S, ONE)]}

InitScoringF32 ==
    /\ pc = "classify32_loop"
    /\ \E p \in LociF32 : pairs = <<p>>
    /\ \E dp \in DepthPairsF32 :
          coverage = [nuclear_median |-> 100, mito_median |-> 100,
                      per_pair |-> [id \in {PairId(0)} |-> dp]]
    /\ \E sn \in SpanValsF32, sm \in SpanValsF32 :
          spans = [per_pair |-> [id \in {PairId(0)} |-> <<sn, sm>>]]
    /\ w \in WeightsF32
    /\ params = [call_threshold |-> F32Quot(CALL_THRESHOLD, ONE),
                 highconf_threshold |-> F32Quot(HIGHCONF_THRESHOLD, ONE)]
    /\ k = 0
    /\ loc = NoValue
    /\ pairs_tsv = <<>>
    /\ class_tsv = <<>>
    /\ ret = NoValue
    /\ IdlePairer
    /\ IdleReader
    /\ IdleReport

\* one iteration of `for p in pairs`
ClassifyStepF32 ==
    /\ pc = "classify32_loop"
    /\ k < Len(pairs)
    /\ LET p == pairs[k + 1]
           dl == coverage.per_pair[p.pair_id]
       IN \E dc \in DepthContrastF32(F32Quot(dl[1], coverage.nuclear_median),
                                     F32Quot(dl[2], coverage.mito_median)) :
            LET x == ScoreLocusF32(p, coverage, spans, w, params, dc)
            IN /\ loc' = x
               /\ class_tsv' = Append(class_tsv, ClassRowF32(p, x))
    /\ k' = k + 1
    /\ UNCHANGED <<pc, pairs, coverage, spans, w, params, pairs_tsv, ret,
                   pairerVars, readerVars, reportVars>>

\* Ok((pairs_tsv, class_tsv))
ClassifyReturnF32 ==
    /\ pc = "classify32_loop"
    /\ k = Len(pairs)
    /\ pc' = "classify32_done"
    /\ ret' = [tag |-> "Ok", pairs_tsv |-> pairs_tsv, class_tsv |-> class_tsv]
    /\ UNCHANGED <<scoringVars, pairerVars, readerVars, reportVars>>

NextScoringF32 == ClassifyStepF32 \/ ClassifyReturnF32

SpecScoringF32 == InitScoringF32 /\ [][NextScoringF32]_vars

\* whether the integers represent the product x * y exactly before rounding
MulInRange(x, y) ==
    LET ax == Abs(x)
        ay == Abs(y)
        mid == (ax \div (2^15)) * (ay % (2^15)) + (ax % (2^15)) * (ay \div (2^15))
        low == (mid % (2^15)) * (2^15) + (ax % (2^15)) * (ay % (2^15))
        whole == (ax \div (2^15)) * (ay \div (2^15)) + mid \div (2^15) + low \div (2^30)
    IN whole >= 2^24 \/ low % (2^30) = 0

\* every value stays in the range the integers represent exactly
TypeOKScoringF32 ==
    (pc \in {"classify32_loop", "classify32_done"} /\ k > 0) =>
        /\ Abs(loc.score_numt) < 2^30 + 2^29
        /\ Abs(loc.score_nimt) < 2^30 + 2^29
        /\ \A x \in {loc.rnuc, loc.rmito, loc.s_nuc, loc.s_mito, loc.a, loc.l} :
              x = 0 \/ x >= 2^24
        /\ MulInRange(w.w_a, loc.a) /\ MulInRange(w.w_l, loc.l)
        /\ MulInRange(w.w_d, loc.d_numt) /\ MulInRange(w.w_d, loc.d_nimt)
        /\ MulInRange(w.w_s, loc.s_nuc) /\ MulInRange(w.w_s, loc.s_mito)
        /\ MulInRange(w.w_d, loc.depth_contrast)
        /\ MulInRange(w.w_s, loc.span_contrast)

\* the locus with equal depth ratios 1.0, s_nuc = 3/20 and s_mito = 0
AtThreshold ==
    /\ pc = "classify32_done"
    /\ loc.rnuc = ONE32 /\ loc.rmito = ONE32
    /\ loc.s_nuc = F32Quot(3, 20) /\ loc.s_mito = 0
    /\ pairs[1].aln_len = 5000
    /\ w.w_a = 2^28

\* C28: the call and the confidence of a locus do not depend on its
\* alignment identity, its alignment length or the weights w_a and w_l: a
\* locus (a weight vector) that differs only in these receives the same call
\* and the same confidence.
C28_CallIgnoresAlignment ==
    (pc \in {"classify32_loop", "classify32_done"} /\ k > 0) =>
        \A p2 \in LociF32, wt2 \in WeightsF32 :
            LET y == ScoreLocusF32(p2, coverage, spans, wt2, params, loc.depth_contrast)
            IN /\ y.call = loc.call
               /\ Fmt4F32(y.delta) = Fmt4F32(loc.delta)

\* identity 0.95 at the threshold: called NUMT
AtThreshold95 ==
    /\ AtThreshold /\ pairs[1].aln_ident = F32Quot(95, 100)
    /\ loc.call = "NUMT"

\* identity 0.98 at the threshold: called Ambiguous
AtThreshold98 ==
    /\ AtThreshold /\ pairs[1].aln_ident = F32Quot(98, 100)
    /\ loc.call = "Ambiguous"

-----------------------------------------------------------------------------
(* The classification text and its parsers: scoring.rs (writeln! of the    *)
(* rows), subcommands/reuse.rs parse_calls_tsv, summary.rs                 *)
(* parse_calls_tsv_str.  A text is the sequence of its fields and of the   *)
(* separators "\t" and "\n" between them.                                  *)

TAB == "\t"

NL == "\n"

\* String::from("pair_id\tcall\tconfidence\treason_codes\n")
ClassHeader == <<"pair_id", TAB, "call", TAB, "confidence", TAB, "reason_codes", NL>>

\* writeln!(&mut class_tsv, "{pid}\t{call}\t{conf:.4}\t{reason}")
ClassLine(row) ==
    <<row.pair_id, TAB, row.call, TAB, ToString(row.confidence), TAB, row.reason_codes, NL>>

\* class_tsv as text: the header and one line per row
ClassText(rows) ==
    LET t[i \in 0..Len(rows)] == IF i = 0 THEN ClassHeader ELSE t[i - 1] \o ClassLine(rows[i])
    IN t[Len(rows)]

\* str::split(sep): the pieces between the separators
Split(s, sep) ==
    LET at == {i \in 1..Len(s) : s[i] = sep}
        n == Cardinality(at)
        cut(j) == IF j = 0 THEN 0
                  ELSE IF j = n + 1 THEN Len(s) + 1
                  ELSE CHOOSE i \in at : Cardinality({x \in at : x < i}) = j - 1
    IN [j \in 1..(n + 1) |-> SubSeq(s, cut(j - 1) + 1, cut(j) - 1)]

\* str::lines(): the pieces between line ends, without an empty last piece
TextLines(s) ==
    LET ps == Split(s, NL)
    IN IF ps[Len(ps)] = <<>> THEN SubSeq(ps, 1, Len(ps) - 1) ELSE ps

\* the text of a piece
Joined(piece) ==
    LET t[i \in 0..Len(piece)] == IF i = 0 THEN "" ELSE t[i - 1] \o piece[i]
    IN t[Len(piece)]

\* line.trim().is_empty()
TrimIsEmpty(line) == \A i \in 1..Len(line) : line[i] \in {"", " ", TAB}

\* the loop of both parsers over s.lines().skip(from - 1); an empty line is
\* skipped, or with trim a line that is empty once trimmed
ParseFrom(s, from, trim) ==
    LET ls == TextLines(s)
        m[i \in 0..Len(ls)] ==
            IF i < from THEN <<>>
            ELSE LET it == Split(ls[i], TAB)
                      skipped == IF trim THEN TrimIsEmpty(ls[i]) ELSE ls[i] = <<>>
                 IN IF skipped \/ Len(it) < 2 THEN m[i - 1]
                    ELSE Insert(m[i - 1], Joined(it[1]), Joined(it[2]))
    IN m[Len(ls)]

\* parse_calls_tsv without skip(1)
parse_calls_tsv_with_header(s) == ParseFrom(s, 1, FALSE)

\* reuse.rs: pub fn parse_calls_tsv(s: &str) -> HashMap<String, String>
parse_calls_tsv(s) == ParseFrom(s, 2, FALSE)

\* summary.rs: pub fn parse_calls_tsv_str(s: &str) -> HashMap<String, String>
parse_calls_tsv_str(s) == ParseFrom(s, 2, TRUE)

\* the counters of compute_percentages after its loop over the loci
CountCalls(ps, cl) ==
    LET c[i \in 0..Len(ps)] ==
            IF i = 0
            THEN [n_numt |-> 0, n_nimt |-> 0,
                  nuc_intervals_numt |-> <<>>, mito_intervals_nimt |-> <<>>,
                  mito_intervals_from_numt |-> <<>>, nuc_intervals_from_nimt |-> <<>>]
            ELSE OnLocus(c[i - 1], ps[i], CallOf(cl, ps[i].pair_id))
    IN c[Len(ps)]

\* run(): the call map is parsed from the classification text
ParseCalls ==
    /\ pc = "classify_done"
    /\ pc' = "calls_parsed"
    /\ \/ calls' = parse_calls_tsv(ClassText(ret.class_tsv))
       \/ calls' = parse_calls_tsv_str(ClassText(ret.class_tsv))
    /\ UNCHANGED <<scoringVars, pairerVars, readerVars, unionVars, estimatorVars,
                   pipelineVars, windowVars, mito_lens, nuc_lens, sum_pairs, si, cp, ret>>

\* C30: for loci with distinct pair_ids, parsing the classification text with
\* parse_calls_tsv or parse_calls_tsv_str gives a map whose keys are exactly
\* the pair_ids and whose value at a pair_id is the call string of its row,
\* so the summary's n_numt and n_nimt are the numbers of Likely_NUMT and
\* Likely_NIMT rows.
C30_CallsRoundTrip ==
    pc = "calls_parsed" =>
        LET rows == ret.class_tsv
            text == ClassText(rows)
            c == CountCalls(pairs, calls)
        IN /\ parse_calls_tsv(text) = calls
           /\ parse_calls_tsv_str(text) = calls
           /\ DOMAIN calls = {pairs[i].pair_id : i \in 1..Len(pairs)}
           /\ \A i \in 1..Len(pairs) : calls[pairs[i].pair_id] = rows[i].call
           /\ c.n_numt = Cardinality({i \in 1..Len(rows) : rows[i].call = "Likely_NUMT"})
           /\ c.n_nimt = Cardinality({i \in 1..Len(rows) : rows[i].call = "Likely_NIMT"})

\* C30 witness: two loci, one row of each direction, parsed back
C30_Witness ==
    /\ pc = "calls_parsed"
    /\ Len(pairs) = 2
    /\ calls = [id \in {PairId(0), PairId(1)} |->
                   IF id = PairId(0) THEN "Likely_NUMT" ELSE "Likely_NIMT"]
    /\ CountCalls(pairs, calls).n_numt = 1
    /\ CountCalls(pairs, calls).n_nimt = 1

\* classify_pairs and the parse of its classification text
NextScoring == ClassifyStep \/ ClassifyReturn \/ ParseCalls

SpecScoring == InitScoring /\ [][NextScoring]_vars

-----------------------------------------------------------------------------
(* The components together: each behaviour runs one of them *)

Init ==
    \/ InitReader
    \/ InitPairer
    \/ InitScoring
    \/ InitUnion
    \/ InitSummary
    \/ InitEstimator
    \/ InitPipeline
    \/ InitWindow
    \/ InitScoringF32

Next ==
    \/ NextReader
    \/ NextPairer
    \/ NextScoring
    \/ NextUnion
    \/ NextSummary
    \/ NextEstimator
    \/ NextPipeline
    \/ NextWindow
    \/ NextScoringF32

Spec == Init /\ [][Next]_vars

=============================================================================
